---- MODULE Spec2Model ----
(***************************************************************************)
(* HyperCube-WebGPU: the DataProcessor (instance store and layout), the    *)
(* two SelectionSystem modules (the word-per-cube one and the bit-per-cube *)
(* one; the application binds one of them) and the application's delete    *)
(* handler, as a state machine.                                            *)
(*                                                                         *)
(* Conventions.  JavaScript indices are 0-based; data is a TLA+ sequence,  *)
(* so the record at JavaScript index i is data[i + 1].  Lengths are floats *)
(* in the source; here a position is held in quarter units (x4) and a      *)
(* colour channel in units of 1/(5*(CurrentYear - MinYear)), which keeps   *)
(* every value the layout can produce an exact integer.  A GPU buffer is   *)
(* an array of cells; a write or copy outside the buffer is a validation   *)
(* error reported on the device (the call returns, nothing is written), a  *)
(* mapped read outside the buffer rejects.  WebGPU's 4-byte alignment      *)
(* rules are not modelled.  null is NoPMID for an id and exists = FALSE    *)
(* for a buffer.                                                           *)
(***************************************************************************)
EXTENDS Integers, Sequences, FiniteSets, TLC

\* ---------------------------------------------------------------- bounds
\* ids of the records the loader can supply
MaxRecords == 3
\* ids in use in the runs that are about selection
MaxLoaded == 2
\* selectByPMID calls that can be suspended in mapAsync at a time
MaxPending == 2
\* records whose PubYear text varies, in the runs that are about the layout
MaxVaried == 2
\* records of the largest data set in the runs that are about the layout
MaxGrid == 4
\* The uniform buffer is written at most MaxWrites times, the constructor's write included.
MaxWrites == 3
\* generateProjectile is called at most MaxFires times.
MaxFires == 102
\* projectiles fired in the runs that are not about the length of the list
FewFires == 6
\* projectiles fired in the runs that are about the handlers of Controls
MaxShots == 2

\* ------------------------------------------------------------- constants
InstanceBytes == 32
BitsPerByte == 8
MinYear == 1950
CurrentYear == 2026
DefaultYear == 2000
BaseYear == 1990
NoPMID == 0

PMIDs == 1..MaxRecords

\* A PubYear field is the text of a CSV cell, trimmed: a sequence of characters,
\* a decimal digit held as its value and any other character as NonDigit.
NonDigit == 10
NaN == -999999999

\* The PubYear text of the records with fixed years: "1990", "1990", "2000", "2010".
YearText(p) ==
  IF p <= 2 THEN <<1, 9, 9, 0>> ELSE IF p = 3 THEN <<2, 0, 0, 0>> ELSE <<2, 0, 1, 0>>

\* The records the loader can supply: PMID, PubYear and Source of each.
Article(p) ==
  [PMID |-> p,
   PubYear |-> YearText(p),
   Source |-> IF p % 2 = 1 THEN "Nature" ELSE "Science"]

\* Record sequences with distinct ids, in increasing id order.
RECURSIVE SeqOfSet(_)
SeqOfSet(S) ==
  IF S = {} THEN <<>>
  ELSE LET m == CHOOSE x \in S : \A y \in S : x <= y
       IN <<Article(m)>> \o SeqOfSet(S \ {m})

Datasets == {SeqOfSet(S) : S \in SUBSET PMIDs}

LoadedPMIDs == 1..MaxLoaded
LoadedDatasets == {SeqOfSet(S) : S \in SUBSET LoadedPMIDs}

\* PubYear texts a CSV cell can hold: "1900", "2000", "2050", "0", the empty
\* cell and a cell without a digit.
YearFields ==
  {<<1, 9, 0, 0>>, <<2, 0, 0, 0>>, <<2, 0, 5, 0>>, <<0>>, <<>>, <<NonDigit>>}

\* The records with ids 1..Len(f) and the PubYear texts f.
VariedData(f) ==
  [k \in 1..Len(f) |-> [PMID |-> k, PubYear |-> f[k], Source |-> Article(k).Source]]

\* The data sets of the layout runs: up to MaxVaried records with any PubYear
\* texts, and the first n records with fixed years for n up to MaxGrid.
LayoutDatasets ==
  {VariedData(f) : f \in UNION {[1..n -> YearFields] : n \in 0..MaxVaried}}
    \cup {SeqOfSet(1..n) : n \in 0..MaxGrid}

IdsOf(d) == {d[k].PMID : k \in DOMAIN d}

\* findIndex with 0 in place of -1 for an id that is not found.
findIndexOrFirst(d, pmid) ==
  IF \E k \in DOMAIN d : d[k].PMID = pmid
  THEN (CHOOSE k \in DOMAIN d : d[k].PMID = pmid /\ \A j \in 1..(k - 1) : d[j].PMID # pmid) - 1
  ELSE 0

\* Array.prototype.findIndex on PMID: 0-based index of the first match, -1 if none.
findIndex(d, pmid) ==
  IF \E k \in DOMAIN d : d[k].PMID = pmid
  THEN (CHOOSE k \in DOMAIN d : d[k].PMID = pmid /\ \A j \in 1..(k - 1) : d[j].PMID # pmid) - 1
  ELSE -1

\* The filter with its test inverted: the matching records are the ones kept.
filterIn(d, pmids) == SelectSeq(d, LAMBDA a : a.PMID \in pmids)

\* Array.prototype.filter(article => !pmids.includes(article.PMID))
filterOut(d, pmids) == SelectSeq(d, LAMBDA a : a.PMID \notin pmids)

\* Math.ceil(Math.sqrt(n))
CeilSqrt(n) == CHOOSE g \in 0..n : g * g >= n /\ (g = 0 \/ (g - 1) * (g - 1) < n)

\* Math.ceil(Math.sqrt(n / 4))
CeilSqrtQuarter(n) == CHOOSE g \in 0..n : 4 * g * g >= n /\ (g = 0 \/ 4 * (g - 1) * (g - 1) < n)

\* The number of decimal digits the text starts with.
LeadingDigits(s) ==
  CHOOSE n \in 0..Len(s) :
    /\ \A k \in 1..n : s[k] < NonDigit
    /\ (n = Len(s) \/ s[n + 1] >= NonDigit)

RECURSIVE DecimalValue(_)
DecimalValue(s) ==
  IF s = <<>> THEN 0 ELSE 10 * DecimalValue(SubSeq(s, 1, Len(s) - 1)) + s[Len(s)]

\* parseInt(text): the value of the leading digits, NaN if there are none.
parseInt(s) ==
  IF LeadingDigits(s) = 0 THEN NaN ELSE DecimalValue(SubSeq(s, 1, LeadingDigits(s)))

\* parseInt(article.PubYear) || 2000: NaN and 0 are falsy.
parseYear(a) ==
  LET year == parseInt(a.PubYear)
  IN IF year = NaN \/ year = 0 THEN DefaultYear ELSE year

\* ------------------------------------------------------------ the layout
\* The mode strings a caller can pass: the four known ones and an unknown one.
LayoutModes == {"grid", "year", "journal", "cluster", "timeline"}
\* The mode of the runs that are about selection.
FixedModes == {"grid"}

\* Three consecutive Math.random() results, in halves (0 stands for 0.0 and 1
\* for 0.5): the samples a record's jitter is drawn from.
JitterSamples == {<<0, 0, 0>>, <<1, 1, 1>>}

positionByGrid(count, index) ==
  LET gridSize == CeilSqrt(count)
  IN <<((index % gridSize) * 2 - gridSize) * 5, 0, ((index \div gridSize) * 2 - gridSize) * 5>>

positionByYear(d, article) ==
  LET year == parseYear(article)
      yearOffset == (year - BaseYear) * 3
      yearData == SelectSeq(d, LAMBDA a : a.PubYear = article.PubYear)
      yearIndex == findIndex(yearData, article.PMID)
  IN <<yearOffset * 4, yearIndex * 6, 0>>

\* [...new Set(data.map(a => a.Source))]: the sources in order of first occurrence.
RECURSIVE journalsOf(_)
journalsOf(d) ==
  IF d = <<>> THEN <<>>
  ELSE LET rest == journalsOf(SubSeq(d, 1, Len(d) - 1))
           s == d[Len(d)].Source
       IN IF \E k \in DOMAIN rest : rest[k] = s THEN rest ELSE Append(rest, s)

\* 4 * 15 * cos(2 pi k / n) and 4 * 15 * sin(2 pi k / n), rounded, for n <= 4.
RingCos(k, n) ==
  IF k = 0 THEN 60
  ELSE IF n = 2 THEN -60
  ELSE IF n = 3 THEN -30
  ELSE IF k = 2 THEN -60 ELSE 0

RingSin(k, n) ==
  IF k = 0 THEN 0
  ELSE IF n = 2 THEN 0
  ELSE IF n = 3 THEN (IF k = 1 THEN 52 ELSE -52)
  ELSE IF k = 1 THEN 60 ELSE IF k = 3 THEN -60 ELSE 0

positionByJournal(d, article, rnd) ==
  LET journals == journalsOf(d)
      journalIndex == (CHOOSE k \in DOMAIN journals : journals[k] = article.Source) - 1
  IN <<RingCos(journalIndex, Len(journals)), rnd[1] * 10, RingSin(journalIndex, Len(journals))>>

positionByCluster(count, index, rnd) ==
  LET clusterSize == CeilSqrtQuarter(count)
      clusterX == index \div clusterSize
      clusterZ == index % clusterSize
  IN <<clusterX * 24 + (rnd[1] * 4 - 4), rnd[2] * 6 - 6, clusterZ * 24 + (rnd[3] * 4 - 4)>>

\* calculatePosition without the default case of the switch.
calculatePositionNoDefault(mode, d, count, article, index, rnd) ==
  CASE mode = "year" -> positionByYear(d, article)
    [] mode = "journal" -> positionByJournal(d, article, rnd)
    [] mode = "cluster" -> positionByCluster(count, index, rnd)
    [] mode = "grid" -> positionByGrid(count, index)
    [] OTHER -> <<0, 0, 0>>

calculatePosition(mode, d, count, article, index, rnd) ==
  CASE mode = "year" -> positionByYear(d, article)
    [] mode = "journal" -> positionByJournal(d, article, rnd)
    [] mode = "cluster" -> positionByCluster(count, index, rnd)
    [] OTHER -> positionByGrid(count, index)

\* calculateColor without Math.min(1, Math.max(0, ...)).
calculateColorUnclamped(article) ==
  LET year == parseYear(article)
      span == CurrentYear - MinYear
      normalized == year - MinYear
  IN <<5 * normalized, span, 5 * (span - normalized)>>

calculateColor(article) ==
  LET year == parseYear(article)
      span == CurrentYear - MinYear
      off == year - MinYear
      normalized == IF off < 0 THEN 0 ELSE IF off > span THEN span ELSE off
  IN <<5 * normalized, span, 5 * (span - normalized)>>

\* One instance of the cube buffer: 8 floats.
Instance(mode, d, count, index, rnd) ==
  [position |-> calculatePosition(mode, d, count, d[index + 1], index, rnd),
   color |-> calculateColor(d[index + 1]),
   size |-> 8,
   selected |-> 0]

ZeroInstance == [position |-> <<0, 0, 0>>, color |-> <<0, 0, 0>>, size |-> 0, selected |-> 0]

\* The Math.random() results one processData call can draw, per record: three
\* (x, y, z) under cluster, one (y) under journal, none otherwise.
RandomDraws(mode, n) ==
  IF mode \in {"journal", "cluster"} THEN [0..(n - 1) -> JitterSamples]
  ELSE {[i \in 0..(n - 1) |-> <<0, 0, 0>>]}

\* cubeInstances with each record laid out at the index after its own.
cubeInstancesShifted(mode, d, count, rnd) ==
  [k \in 1..count |->
     IF k <= Len(d)
     THEN [Instance(mode, d, count, k - 1, rnd[k - 1]) EXCEPT
             !.position = calculatePosition(mode, d, count, d[k], k, rnd[k - 1])]
     ELSE ZeroInstance]

\* processData: the Float32Array of count * 8 floats, filled from data, is
\* written at offset 0 of the buffer; the rest of the buffer keeps its contents.
\* A write longer than the buffer is a validation error and writes nothing.
cubeInstances(mode, d, count, rnd) ==
  [k \in 1..count |-> IF k <= Len(d) THEN Instance(mode, d, count, k - 1, rnd[k - 1]) ELSE ZeroInstance]

processData(buf, mode, d, count, rnd) ==
  IF count > Len(buf.slots) THEN buf
  ELSE [buf EXCEPT !.slots = [k \in 1..Len(buf.slots) |->
                                 IF k <= count THEN cubeInstances(mode, d, count, rnd)[k]
                                 ELSE buf.slots[k]]]

\* ---------------------------------------------------------------- state
VARIABLES
  impl,                   \* which SelectionSystem module the page loaded: "word" or "bits"
  data,                   \* DataProcessor.data
  instanceCount,          \* DataProcessor.instanceCount
  cubeData,               \* DataProcessor.cubeData: the instance buffer
  layoutMode,             \* DataProcessor.layoutMode
  renderBindGroup,        \* DataProcessor.renderBindGroup: the buffer it binds
  selectedPMIDs,          \* SelectionSystem.selectedPMIDs
  highlightedPMID,        \* SelectionSystem.highlightedPMID
  selectionBuffer,        \* SelectionSystem.selectionBuffer: words ("word") or bytes ("bits")
  selectionData,          \* SelectionSystem.selectionData ("word" only)
  selectionStagingBuffer, \* SelectionSystem.selectionStagingBuffer ("bits" only)
  pending,                \* selectByPMID calls suspended in mapAsync, oldest first ("bits" only)
  call,                   \* the call that returned or suspended last, with its result
  app,                    \* WebGPUHyperCube: where its deleteSelected is suspended, and its snapshot
  camera,                 \* CameraSystem: pose, matrices, time and the uniform buffer's contents
  renderer,               \* WebGPURenderer: canvas size, depth texture size, the last frame
  controls                \* Controls: pointer lock, mouse, keys and touch state

vars == <<impl, data, instanceCount, cubeData, layoutMode, renderBindGroup,
          selectedPMIDs, highlightedPMID, selectionBuffer, selectionData,
          selectionStagingBuffer, pending, call, app, camera, renderer, controls>>

procVars == <<data, instanceCount, cubeData, layoutMode, renderBindGroup>>
selVars == <<selectedPMIDs, highlightedPMID, selectionBuffer, selectionData,
             selectionStagingBuffer, pending>>
camVars == <<camera, renderer, controls>>
storeVars == <<impl, app, procVars, selVars>>

NoBuffer == [exists |-> FALSE, slots |-> <<>>]
NoCells == [exists |-> FALSE, cells |-> <<>>]
Zeros(n) == [exists |-> TRUE, cells |-> [k \in 1..n |-> 0]]

Call(op, pmid, pmids, selected, ret) ==
  [op |-> op, pmid |-> pmid, pmids |-> pmids, selected |-> selected, ret |-> ret]

\* Math.ceil(instanceCount / 8)
CeilDiv8(n) == (n + BitsPerByte - 1) \div BitsPerByte

\* createSelectionBuffers ("bits"): both buffers sized from the current instanceCount, zeroed.
createSelectionBuffers(count) == Zeros(CeilDiv8(count))

\* ---------------------------------------------------------- CameraSystem
\* Positions are held in thousandths (PosUnit); unit vectors, sines and cosines
\* in ten-thousandths (DirUnit); every product and quotient is rounded to the
\* nearest.  NaN is carried through the arithmetic as JavaScript carries it.
PosUnit == 1000
DirUnit == 10000

\* The largest integer whose square is a 32-bit integer.
MaxRoot == 46340

Abs(a) == IF a < 0 THEN -a ELSE a

\* a / b to the nearest integer, for b > 0.
RoundDiv(a, b) ==
  IF a >= 0 THEN (2 * a + b) \div (2 * b) ELSE -((2 * (-a) + b) \div (2 * b))

RECURSIVE RootBetween(_, _, _)
RootBetween(n, lo, hi) ==
  IF lo = hi THEN lo
  ELSE LET mid == (lo + hi + 1) \div 2
       IN IF mid * mid <= n THEN RootBetween(n, mid, hi) ELSE RootBetween(n, lo, mid - 1)

\* Math.sqrt, to the nearest integer.
Sqrt(n) == LET r == RootBetween(n, 0, MaxRoot) IN IF n - r * r > r THEN r + 1 ELSE r

IsNaN(a) == a = NaN
Add(a, b) == IF IsNaN(a) \/ IsNaN(b) THEN NaN ELSE a + b
Sub(a, b) == IF IsNaN(a) \/ IsNaN(b) THEN NaN ELSE a - b
Neg(a) == IF IsNaN(a) THEN NaN ELSE -a

\* a * b for a factor b held in units of 1/unit.
Mul(a, b, unit) == IF IsNaN(a) \/ IsNaN(b) THEN NaN ELSE RoundDiv(a * b, unit)

\* a / b in units of 1/unit, for b >= 0; 0 / 0 is NaN (a nonzero a is never
\* divided by 0 here).
Div(a, b, unit) == IF IsNaN(a) \/ IsNaN(b) \/ b = 0 THEN NaN ELSE RoundDiv(a * unit, b)

NaNVector == <<NaN, NaN, NaN>>
HasNaN(v) == \E k \in 1..3 : IsNaN(v[k])

addVectors(a, b) == [k \in 1..3 |-> Add(a[k], b[k])]
subtractVectors(a, b) == [k \in 1..3 |-> Sub(a[k], b[k])]

\* v * s for a scalar s held in units of 1/unit.
scaleVector(v, s, unit) == [k \in 1..3 |-> Mul(v[k], s, unit)]

\* cross(a, b) for b a vector in DirUnit.
cross(a, b) ==
  <<Sub(Mul(a[2], b[3], DirUnit), Mul(a[3], b[2], DirUnit)),
    Sub(Mul(a[3], b[1], DirUnit), Mul(a[1], b[3], DirUnit)),
    Sub(Mul(a[1], b[2], DirUnit), Mul(a[2], b[1], DirUnit))>>

\* dot(a, b) for a a vector in DirUnit.
dot(a, b) ==
  Add(Add(Mul(a[1], b[1], DirUnit), Mul(a[2], b[2], DirUnit)), Mul(a[3], b[3], DirUnit))

\* Math.sqrt(v[0] * v[0] + v[1] * v[1] + v[2] * v[2])
length(v) == IF HasNaN(v) THEN NaN ELSE Sqrt(v[1] * v[1] + v[2] * v[2] + v[3] * v[3])

\* CameraSystem.normalize and the normalisations written out in Controls: every
\* component is divided by the length, with no test for a zero length.
normalize(v) == LET l == length(v) IN [k \in 1..3 |-> Div(v[k], l, DirUnit)]

\* this.up = [0, 1, 0]
up == <<0, DirUnit, 0>>

\* 1.0 / Math.tan(this.fov / 2) for fov = 75 degrees, in DirUnit.
FocalScale == 13032

\* updateProjectionMatrix: the two entries that vary, f / aspect and f, with
\* aspect = canvas.width / canvas.height (the other entries come from near and
\* far alone).
updateProjectionMatrix(canvas) ==
  [x |-> RoundDiv(FocalScale * canvas[2], canvas[1]), y |-> FocalScale]

\* updateViewMatrix: the basis x, y, z and the translation row.
updateViewMatrix(position, target) ==
  LET z == normalize(subtractVectors(target, position))
      x == normalize(cross(up, z))
      y == cross(z, x)
  IN [x |-> x, y |-> y, z |-> z,
      t |-> <<Neg(dot(x, position)), Neg(dot(y, position)), Neg(dot(z, position))>>]

\* multiplyMatrices(out, projection, view): the product is kept as its two factors.
multiplyMatrices(projection, view) == [projection |-> projection, view |-> view]

\* updateUniformBuffer without the advance of this.time.
updateUniformBufferTimeless(cam) ==
  [cam EXCEPT !.uniformBuffer = [viewProjectionMatrix |-> cam.viewProjectionMatrix,
                                 position |-> cam.position,
                                 time |-> cam.time],
              !.writes = cam.writes + 1]

\* updateUniformBuffer: this.time += 0.01 (time is held in hundredths), then the
\* view-projection matrix, the position and the time are written to the uniform
\* buffer.  writes counts the writes.
updateUniformBuffer(cam) ==
  [cam EXCEPT !.time = cam.time + 1,
              !.uniformBuffer = [viewProjectionMatrix |-> cam.viewProjectionMatrix,
                                 position |-> cam.position,
                                 time |-> cam.time + 1],
              !.writes = cam.writes + 1]

\* updateMatrices without the write of the uniform buffer.
updateMatricesUnwritten(cam, canvas) ==
  LET projection == updateProjectionMatrix(canvas)
      view == updateViewMatrix(cam.position, cam.target)
  IN [cam EXCEPT !.aspect = RoundDiv(canvas[1] * DirUnit, canvas[2]),
                 !.projectionMatrix = projection,
                 !.viewMatrix = view,
                 !.viewProjectionMatrix = multiplyMatrices(projection, view)]

updateMatrices(cam, canvas) ==
  LET projection == updateProjectionMatrix(canvas)
      view == updateViewMatrix(cam.position, cam.target)
  IN updateUniformBuffer(
       [cam EXCEPT !.aspect = RoundDiv(canvas[1] * DirUnit, canvas[2]),
                   !.projectionMatrix = projection,
                   !.viewMatrix = view,
                   !.viewProjectionMatrix = multiplyMatrices(projection, view)])

ZeroMatrix == [x |-> <<0, 0, 0>>, y |-> <<0, 0, 0>>, z |-> <<0, 0, 0>>, t |-> <<0, 0, 0>>]

\* The canvas element's width and height before any resize.
DefaultCanvas == <<800, 1480>>

\* The CameraSystem as its constructor leaves it before init().
constructedCamera ==
  [position |-> <<0, 1600, 5000>>,
   target |-> <<0, 0, 0>>,
   aspect |-> DirUnit,
   viewMatrix |-> ZeroMatrix,
   projectionMatrix |-> [x |-> 0, y |-> 0],
   viewProjectionMatrix |-> multiplyMatrices([x |-> 0, y |-> 0], ZeroMatrix),
   time |-> 0,
   uniformBuffer |-> [viewProjectionMatrix |-> multiplyMatrices([x |-> 0, y |-> 0], ZeroMatrix),
                      position |-> <<0, 0, 0>>,
                      time |-> 0],
   writes |-> 0]

\* The poses moved by d, a displacement in PosUnit.
movedBy(cam, d) ==
  [cam EXCEPT !.position = addVectors(cam.position, d), !.target = addVectors(cam.target, d)]

\* --------------------------------------------------------------- Controls
\* Controls.prototype.normalize, which replaces the method of the class body:
\* a vector whose length is not greater than 0 becomes [0, 0, 0].
normalizeOrZero(v) ==
  LET l == length(v)
  IN IF ~IsNaN(l) /\ l > 0 THEN [k \in 1..3 |-> Div(v[k], l, DirUnit)] ELSE <<0, 0, 0>>

\* For a mouse or touch delta m (pixels), the angle -m * sensitivity = -m * 0.002:
\* its cosine and sine in DirUnit, and the sines of -maxPitch - angle and
\* maxPitch - angle (maxPitch = 85 degrees) between which Math.asin(v) + angle
\* is within maxPitch; -DirUnit - 1 and DirUnit + 1 where that bound lies
\* beyond -90 or 90 degrees and excludes nothing.
Turn(m) ==
  CASE m = 0     -> [cos |-> 10000, sin |-> 0,     lower |-> -9962,  upper |-> 9962]
    [] m = 300   -> [cos |-> 8253,  sin |-> -5646, lower |-> -7730,  upper |-> 10001]
    [] m = -300  -> [cos |-> 8253,  sin |-> 5646,  lower |-> -10001, upper |-> 7730]
    [] m = 410   -> [cos |-> 6822,  sin |-> -7311, lower |-> -6160,  upper |-> 10001]
    [] m = -410  -> [cos |-> 6822,  sin |-> 7311,  lower |-> -10001, upper |-> 6160]
    [] m = 740   -> [cos |-> 907,   sin |-> -9959, lower |-> -36,    upper |-> 10001]
    [] m = -740  -> [cos |-> 907,   sin |-> 9959,  lower |-> -10001, upper |-> 36]
    [] m = 1150  -> [cos |-> -6663, sin |-> -7457, lower |-> 7287,   upper |-> 10001]
    [] m = -1150 -> [cos |-> -6663, sin |-> 7457,  lower |-> -10001, upper |-> -7287]

\* Math.abs(Math.asin(v) + pitch) < maxPitch; false for a NaN.
pitchAllowed(v, pitch) == ~IsNaN(v) /\ v > pitch.lower /\ v < pitch.upper

\* rotateCamera up to its call of updateMatrices, for yaw = -mx * sensitivity and
\* pitch = -my * sensitivity.
rotateCamera(cam, mx, my) ==
  LET direction == normalize(subtractVectors(cam.target, cam.position))
      right == cross(direction, up)
      yaw == Turn(mx)
      pitch == Turn(my)
      newDirYaw == addVectors(scaleVector(direction, yaw.cos, DirUnit),
                              scaleVector(right, yaw.sin, DirUnit))
      pitchUp == cross(right, newDirYaw)
      turned == IF pitchAllowed(newDirYaw[2], pitch)
                THEN addVectors(scaleVector(newDirYaw, pitch.cos, DirUnit),
                                scaleVector(pitchUp, pitch.sin, DirUnit))
                ELSE newDirYaw
      final == normalize(turned)
  IN [cam EXCEPT !.target = addVectors(cam.position, scaleVector(final, 5 * PosUnit, DirUnit))]

\* The zoom of onWheel and of the pinch: position and target move by
\* getCameraDirection() * (factor - 1) * 2, with factor - 1 = num / den.
zoomed(cam, num, den) ==
  LET direction == subtractVectors(cam.target, cam.position)
  IN movedBy(cam, [k \in 1..3 |-> IF IsNaN(direction[k]) THEN NaN
                                  ELSE RoundDiv(direction[k] * 2 * num, den)])

\* handleMovement(deltaTime), deltaTime in milliseconds or NaN.
handleMovement(cam, keys, deltaTime) ==
  LET forward == IF keys \cap {"s", "arrowdown"} # {} THEN -1
                 ELSE IF keys \cap {"w", "arrowup"} # {} THEN 1 ELSE 0
      sideways == IF keys \cap {"a", "arrowleft"} # {} THEN -1
                  ELSE IF keys \cap {"d", "arrowright"} # {} THEN 1 ELSE 0
      upward == IF keys \cap {"control", "arrowdown"} # {} THEN -1
                ELSE IF keys \cap {" ", "arrowup"} # {} THEN 1 ELSE 0
      normalizedDirection == normalizeOrZero(subtractVectors(cam.target, cam.position))
      right == cross(normalizedDirection, up)
      sum == [k \in 1..3 |-> Add(Add(Mul(normalizedDirection[k], forward, 1),
                                     Mul(right[k], sideways, 1)),
                                 Mul(up[k], upward, 1))]
      speed == <<5 * PosUnit, 3 * PosUnit, 5 * PosUnit>>
      totalMovement == [k \in 1..3 |-> Mul(Mul(sum[k], speed[k], DirUnit), deltaTime, 1000)]
  IN IF forward = 0 /\ sideways = 0 /\ upward = 0 THEN cam ELSE movedBy(cam, totalMovement)

\* getTouchDistance
getTouchDistance(touches) ==
  LET dx == touches[1][1] - touches[2][1]
      dy == touches[1][2] - touches[2][2]
  IN Sqrt(dx * dx + dy * dy)

\* this.maxProjectiles = 100
maxProjectiles == 100

\* lifetime: 2.0 seconds, in thousandths; projectileSpeed = 15.0 per second.
ProjectileLifetime == 2000
projectileSpeed == 15

\* generateProjectile without the shift of the oldest projectile.
generateProjectileUnshifted(c, cam) ==
  LET normalizedDirection == normalizeOrZero(subtractVectors(cam.target, cam.position))
      projectile == [id |-> c.fired + 1,
                     position |-> cam.position,
                     velocity |-> scaleVector(normalizedDirection, projectileSpeed * PosUnit, DirUnit),
                     lifetime |-> ProjectileLifetime,
                     active |-> TRUE]
  IN [c EXCEPT !.projectiles = Append(c.projectiles, projectile), !.fired = c.fired + 1]

\* generateProjectile: the oldest projectile is shifted out of a full list and
\* the new one is pushed.  fired counts the calls; id tells the objects apart.
generateProjectile(c, cam) ==
  LET kept == IF Len(c.projectiles) >= maxProjectiles THEN Tail(c.projectiles)
              ELSE c.projectiles
      normalizedDirection == normalizeOrZero(subtractVectors(cam.target, cam.position))
      projectile == [id |-> c.fired + 1,
                     position |-> cam.position,
                     velocity |-> scaleVector(normalizedDirection, projectileSpeed * PosUnit, DirUnit),
                     lifetime |-> ProjectileLifetime,
                     active |-> TRUE]
  IN [c EXCEPT !.projectiles = Append(kept, projectile), !.fired = c.fired + 1]

\* checkProjectileCollision: distanceFromCamera > 50, compared in tenths; false
\* for a NaN.
farFromCamera(position, cameraPosition) ==
  LET d == subtractVectors(position, cameraPosition)
      tenths == [k \in 1..3 |-> RoundDiv(d[k], PosUnit \div 10)]
  IN ~HasNaN(d) /\ tenths[1] * tenths[1] + tenths[2] * tenths[2] + tenths[3] * tenths[3] > 500 * 500

\* One projectile after the body of the loop of updateProjectiles, deltaTime
\* in thousandths of a second or NaN: lifetime <= 0 is false for a NaN.
steppedProjectile(p, deltaTime, cameraPosition) ==
  LET position == [k \in 1..3 |-> Add(p.position[k], Mul(p.velocity[k], deltaTime, 1000))]
      lifetime == Sub(p.lifetime, deltaTime)
      expired == ~IsNaN(lifetime) /\ lifetime <= 0
  IN [p EXCEPT !.position = position,
               !.lifetime = lifetime,
               !.active = ~expired /\ ~farFromCamera(position, cameraPosition)]

\* updateProjectiles(deltaTime): the projectiles found inactive are spliced
\* out, the others are moved, aged and tested.
updateProjectiles(projectiles, deltaTime, cameraPosition) ==
  LET live == SelectSeq(projectiles, LAMBDA p : p.active)
  IN [k \in 1..Len(live) |-> steppedProjectile(live[k], deltaTime, cameraPosition)]

\* -------------------------------------------------------- WebGPURenderer
NoFrame ==
  [drawn |-> FALSE, color |-> <<0, 0>>, depth |-> <<0, 0>>,
   uniform |-> constructedCamera.uniformBuffer, instanceCount |-> 0, bufferSize |-> 0]

\* The depth texture a frame goes on with when the check of the canvas size is left out.
depthTextureKept(r) == r.depthTexture

\* The depth texture render goes on with: a new one of the canvas's size if the
\* sizes differ.
depthTextureChecked(r) == IF r.canvas # r.depthTexture THEN r.canvas ELSE r.depthTexture

\* render(camera, dataProcessor): nothing without a bind group or with no
\* instances; otherwise one render pass on the canvas's current texture and the
\* depth texture, with the camera's and the data's bind groups, is submitted.
\* frame is the submission of the last call, if it made one.
render(r, cam) ==
  IF ~renderBindGroup.exists \/ instanceCount = 0
  THEN [r EXCEPT !.frame = NoFrame]
  ELSE [r EXCEPT !.depthTexture = depthTextureChecked(r),
                 !.frame = [drawn |-> TRUE,
                            color |-> r.canvas,
                            depth |-> depthTextureChecked(r),
                            uniform |-> cam.uniformBuffer,
                            instanceCount |-> instanceCount,
                            bufferSize |-> renderBindGroup.bufferSize]]

\* No deleteSelected is in progress.
Idle == [pc |-> "idle", selected |-> {}]

\* Everything but the camera after construction and init().
InitApp ==
  /\ impl \in {"word", "bits"}
  /\ data = <<>>
  /\ instanceCount = 0
  /\ cubeData = NoBuffer
  /\ layoutMode = "grid"
  /\ renderBindGroup = [exists |-> FALSE, bufferSize |-> 0]
  /\ selectedPMIDs = {}
  /\ highlightedPMID = NoPMID
  /\ selectionBuffer = IF impl = "word" THEN NoCells ELSE createSelectionBuffers(0)
  /\ selectionData = NoCells
  /\ selectionStagingBuffer = IF impl = "word" THEN NoCells ELSE createSelectionBuffers(0)
  /\ pending = <<>>
  /\ call = Call("new", NoPMID, {}, FALSE, "undefined")
  /\ app = Idle
  /\ renderer = [canvas |-> DefaultCanvas, depthTexture |-> DefaultCanvas, frame |-> NoFrame]
  /\ controls = [isPointerLocked |-> FALSE,
                 isEnabled |-> TRUE,
                 mouse |-> [x |-> 0, y |-> 0, prevX |-> 0, prevY |-> 0, isDragging |-> FALSE],
                 keys |-> {},
                 touchStartDistance |-> NaN,
                 isPinching |-> FALSE,
                 projectiles |-> <<>>,
                 fired |-> 0]

\* CameraSystem.init(): the first updateMatrices.
Init == InitApp /\ camera = updateMatrices(constructedCamera, DefaultCanvas)

\* -------------------------------------------------------- DataProcessor
\* createRenderBindGroup: binding 0 is the buffer that is cubeData at the call.
createRenderBindGroup(buf) == [exists |-> TRUE, bufferSize |-> Len(buf.slots) * InstanceBytes]

uploadData(records, rnd) ==
  LET count == Len(records)
      fresh == [exists |-> TRUE, slots |-> [k \in 1..count |-> ZeroInstance]]
      written == processData(fresh, layoutMode, records, count, rnd)
  IN /\ data' = records
     /\ instanceCount' = count
     /\ cubeData' = written
     /\ renderBindGroup' = createRenderBindGroup(written)
     /\ call' = Call("uploadData", NoPMID, {}, FALSE, "undefined")
     /\ UNCHANGED <<camVars, app, impl, layoutMode>>
     /\ UNCHANGED selVars

\* uploadDataCall without the assignment of instanceCount.
uploadDataCallCountKept(records, rnd) ==
  LET count == Len(records)
      fresh == [exists |-> TRUE, slots |-> [k \in 1..count |-> ZeroInstance]]
  IN /\ app.pc = "idle"
     /\ app' = [pc |-> "uploadData", selected |-> {}]
     /\ data' = records
     /\ cubeData' = processData(fresh, layoutMode, records, count, rnd)
     /\ call' = Call("uploadData", NoPMID, {}, FALSE, "pending")
     /\ UNCHANGED <<camVars, impl, layoutMode, renderBindGroup, instanceCount>>
     /\ UNCHANGED selVars

\* uploadData up to its await of processData(): the records, instanceCount and
\* the new buffer are assigned and the buffer is written; the bind group is
\* still the previous one.  The application is suspended in its await of
\* uploadData.
uploadDataCall(records, rnd) ==
  LET count == Len(records)
      fresh == [exists |-> TRUE, slots |-> [k \in 1..count |-> ZeroInstance]]
  IN /\ app.pc = "idle"
     /\ app' = [pc |-> "uploadData", selected |-> {}]
     /\ data' = records
     /\ instanceCount' = count
     /\ cubeData' = processData(fresh, layoutMode, records, count, rnd)
     /\ call' = Call("uploadData", NoPMID, {}, FALSE, "pending")
     /\ UNCHANGED <<camVars, impl, layoutMode, renderBindGroup>>
     /\ UNCHANGED selVars

\* uploadData resumed after the await: createRenderBindGroup().
uploadDataResume ==
  /\ app.pc = "uploadData"
  /\ app' = Idle
  /\ renderBindGroup' = createRenderBindGroup(cubeData)
  /\ call' = Call("uploadData", NoPMID, {}, FALSE, "undefined")
  /\ UNCHANGED <<camVars, impl, data, instanceCount, cubeData, layoutMode>>
  /\ UNCHANGED selVars

\* What device.createBuffer does when the buffer cannot be created: it throws
\* (a TypeError or RangeError raised on the calling side), or it returns a
\* buffer that is invalid and reports the error on the device, where the code
\* has no error scope and no uncapturederror listener.
CreateBufferFailures == {"throws", "invalid"}

\* An invalid buffer holds nothing and every write to it is dropped.
InvalidBuffer == [exists |-> TRUE, slots |-> <<>>]

\* uploadData when createBuffer fails.  The records and instanceCount are
\* assigned before createBuffer is called.  If it throws, the call rejects with
\* cubeData and the bind group as they were; if it returns an invalid buffer,
\* writeBuffer and createBindGroup raise nothing and the call resolves.
uploadDataCreateBufferFails(records, outcome) ==
  /\ data' = records
  /\ instanceCount' = Len(records)
  /\ IF outcome = "throws"
     THEN UNCHANGED <<cubeData, renderBindGroup>>
     ELSE /\ cubeData' = InvalidBuffer
          /\ renderBindGroup' = createRenderBindGroup(InvalidBuffer)
  /\ call' = [op |-> "uploadData", pmid |-> NoPMID, pmids |-> {}, selected |-> FALSE,
              ret |-> IF outcome = "throws" THEN "throws" ELSE "undefined",
              createBuffer |-> outcome]
  /\ UNCHANGED <<camVars, app, impl, layoutMode>>
  /\ UNCHANGED selVars

setLayoutMode(mode) ==
  /\ layoutMode' = mode
  /\ call' = Call("setLayoutMode", NoPMID, {}, FALSE, "undefined")
  /\ UNCHANGED <<camVars, app, impl, data, instanceCount, cubeData, renderBindGroup>>
  /\ UNCHANGED selVars

\* writeBuffer(null, ...) throws a TypeError: processData rejects before upload.
recomputeLayout(rnd) ==
  /\ IF cubeData.exists
     THEN /\ cubeData' = processData(cubeData, layoutMode, data, instanceCount, rnd)
          /\ call' = Call("recomputeLayout", NoPMID, {}, FALSE, "undefined")
     ELSE /\ cubeData' = cubeData
          /\ call' = Call("recomputeLayout", NoPMID, {}, FALSE, "throws")
  /\ UNCHANGED <<camVars, app, impl, data, instanceCount, layoutMode, renderBindGroup>>
  /\ UNCHANGED selVars

deleteArticles(pmids, rnd) ==
  LET kept == filterOut(data, pmids)
  IN /\ data' = kept
     /\ instanceCount' = Len(kept)
     /\ IF cubeData.exists
        THEN /\ cubeData' = processData(cubeData, layoutMode, kept, Len(kept), rnd)
             /\ call' = Call("deleteArticles", NoPMID, pmids, FALSE, "undefined")
        ELSE /\ cubeData' = cubeData
             /\ call' = Call("deleteArticles", NoPMID, pmids, FALSE, "throws")
     /\ UNCHANGED <<camVars, app, impl, layoutMode, renderBindGroup>>
     /\ UNCHANGED selVars

\* ------------------------------------- SelectionSystem, one word per cube
\* selectedAfter without the delete of the deselected id.
selectedAfterAddOnly(pmid, selected) ==
  IF selected THEN selectedPMIDs \cup {pmid} ELSE selectedPMIDs

\* The CPU selection state after selectByPMID's update of the set and the highlight.
selectedAfter(pmid, selected) ==
  IF selected THEN selectedPMIDs \cup {pmid} ELSE selectedPMIDs \ {pmid}

highlightedAfter(pmid, selected) ==
  IF selected THEN pmid
  ELSE IF highlightedPMID = pmid THEN NoPMID ELSE highlightedPMID

\* A store of one cell at 0-based index i; outside the array it is dropped.
writeCell(buf, i, v) ==
  IF buf.exists /\ i >= 0 /\ i < Len(buf.cells)
  THEN [buf EXCEPT !.cells[i + 1] = v]
  ELSE buf

initializeSelectionBuffer ==
  /\ impl = "word"
  /\ IF instanceCount = 0
     THEN UNCHANGED <<selectionBuffer, selectionData>>
     ELSE /\ selectionBuffer' = Zeros(instanceCount)
          /\ selectionData' = Zeros(instanceCount)
  /\ call' = Call("initializeSelectionBuffer", NoPMID, {}, FALSE, "undefined")
  /\ UNCHANGED <<camVars, app, impl, selectedPMIDs, highlightedPMID, selectionStagingBuffer, pending>>
  /\ UNCHANGED procVars

selectByPMID(pmid, selected) ==
  LET cubeIndex == findIndex(data, pmid)
      v == IF selected THEN 1 ELSE 0
  IN /\ impl = "word"
     /\ IF ~cubeData.exists \/ cubeIndex = -1
        THEN /\ call' = Call("selectByPMID", pmid, {}, selected, "false")
             /\ UNCHANGED <<selectedPMIDs, highlightedPMID, selectionBuffer, selectionData>>
        ELSE /\ selectedPMIDs' = selectedAfter(pmid, selected)
             /\ highlightedPMID' = highlightedAfter(pmid, selected)
             /\ selectionData' = writeCell(selectionData, cubeIndex, v)
             /\ selectionBuffer' = IF selectionData.exists
                                   THEN writeCell(selectionBuffer, cubeIndex, v)
                                   ELSE selectionBuffer
             /\ call' = Call("selectByPMID", pmid, {}, selected, "true")
     /\ UNCHANGED <<camVars, app, impl, selectionStagingBuffer, pending>>
     /\ UNCHANGED procVars

\* selectionData.fill(0) and the write of the whole array at offset 0.
clearedData == Zeros(Len(selectionData.cells))

\* clearedBuffer without the write to the GPU buffer.
clearedBufferUnwritten == selectionBuffer

clearedBuffer ==
  IF Len(selectionData.cells) <= Len(selectionBuffer.cells)
  THEN [selectionBuffer EXCEPT !.cells =
          [k \in 1..Len(selectionBuffer.cells) |->
             IF k <= Len(selectionData.cells) THEN 0 ELSE selectionBuffer.cells[k]]]
  ELSE selectionBuffer

clearSelection ==
  /\ impl = "word"
  /\ selectedPMIDs' = {}
  /\ highlightedPMID' = NoPMID
  /\ IF selectionBuffer.exists /\ selectionData.exists
     THEN /\ selectionData' = clearedData
          /\ selectionBuffer' = clearedBuffer
     ELSE UNCHANGED <<selectionBuffer, selectionData>>
  /\ call' = Call("clearSelection", NoPMID, {}, FALSE, "undefined")
  /\ UNCHANGED <<camVars, app, impl, selectionStagingBuffer, pending>>
  /\ UNCHANGED procVars

\* -------------------------------------- SelectionSystem, one bit per cube
\* (byte >> k) & 1
bitOf(byte, k) == (byte \div (2 ^ k)) % 2

\* byte | (1 << k) and byte & ~(1 << k), as stored into a Uint8Array
updatedByte(byte, k, selected) ==
  IF selected
  THEN (IF bitOf(byte, k) = 1 THEN byte ELSE byte + 2 ^ k)
  ELSE (IF bitOf(byte, k) = 1 THEN byte - 2 ^ k ELSE byte)

\* A suspended selectByPMID whose staging buffer was replaced while it waited:
\* it throws when it resumes, whatever its index and flag were.
Remapped == [cubeIndex |-> 0, selected |-> FALSE, remapped |-> TRUE]

\* selectByPMID up to the await of mapAsync inside readSelectionByte: the id is
\* looked up, the CPU state is updated, and one byte is copied to the staging
\* buffer (not if the byte is outside either buffer).  Mapping a range outside
\* the staging buffer rejects, and the call throws.
gpuSelectByPMID(pmid, selected) ==
  LET cubeIndex == findIndex(data, pmid)
      byteIndex == cubeIndex \div BitsPerByte
      copied == /\ byteIndex < Len(selectionBuffer.cells)
                /\ Len(selectionStagingBuffer.cells) >= 1
  IN /\ impl = "bits"
     /\ IF cubeIndex = -1
        THEN /\ call' = Call("selectByPMID", pmid, {}, selected, "false")
             /\ UNCHANGED <<selectedPMIDs, highlightedPMID, selectionStagingBuffer, pending>>
        ELSE /\ selectedPMIDs' = selectedAfter(pmid, selected)
             /\ highlightedPMID' = highlightedAfter(pmid, selected)
             /\ selectionStagingBuffer' =
                  IF copied
                  THEN writeCell(selectionStagingBuffer, 0, selectionBuffer.cells[byteIndex + 1])
                  ELSE selectionStagingBuffer
             /\ IF Len(selectionStagingBuffer.cells) = 0
                THEN /\ pending' = pending
                     /\ call' = Call("selectByPMID", pmid, {}, selected, "throws")
                ELSE /\ Len(pending) < MaxPending
                     /\ pending' = Append(pending, [cubeIndex |-> cubeIndex,
                                                    selected |-> selected, remapped |-> FALSE])
                     /\ call' = Call("selectByPMID", pmid, {}, selected, "pending")
     /\ UNCHANGED <<camVars, app, impl, selectionBuffer, selectionData>>
     /\ UNCHANGED procVars

\* The rest of the oldest suspended selectByPMID, from the resolution of
\* mapAsync on: the staged byte is read, the bit is changed and the byte is
\* written back.  If the buffers were recreated meanwhile, this.selectionStagingBuffer
\* is a buffer that was never mapped and getMappedRange throws.
updateGPUSelection ==
  /\ impl = "bits"
  /\ pending # <<>>
  /\ "projectile" \notin DOMAIN Head(pending)
  /\ LET p == Head(pending)
         byteIndex == p.cubeIndex \div BitsPerByte
         bitIndex == p.cubeIndex % BitsPerByte
         currentByte == selectionStagingBuffer.cells[1]
     IN IF p.remapped \/ Len(selectionStagingBuffer.cells) = 0
        THEN /\ selectionBuffer' = selectionBuffer
             /\ call' = Call("selectByPMID", NoPMID, {}, p.selected, "throws")
        ELSE /\ selectionBuffer' =
                  writeCell(selectionBuffer, byteIndex, updatedByte(currentByte, bitIndex, p.selected))
             /\ call' = Call("selectByPMID", NoPMID, {}, p.selected, "true")
  /\ pending' = Tail(pending)
  /\ UNCHANGED <<camVars, app, impl, selectedPMIDs, highlightedPMID, selectionData, selectionStagingBuffer>>
  /\ UNCHANGED procVars

gpuClearSelection ==
  /\ impl = "bits"
  /\ selectedPMIDs' = {}
  /\ highlightedPMID' = NoPMID
  /\ selectionBuffer' = Zeros(Len(selectionBuffer.cells))
  /\ call' = Call("clearSelection", NoPMID, {}, FALSE, "undefined")
  /\ UNCHANGED <<camVars, app, impl, selectionData, selectionStagingBuffer, pending>>
  /\ UNCHANGED procVars

\* SelectionSystem.deleteArticles: the ids leave the CPU set and both buffers
\* are recreated from the current instanceCount.
selectionDeleteArticles(pmids) ==
  /\ impl = "bits"
  /\ selectedPMIDs' = selectedPMIDs \ pmids
  /\ selectionBuffer' = createSelectionBuffers(instanceCount)
  /\ selectionStagingBuffer' = createSelectionBuffers(instanceCount)
  /\ pending' = [k \in DOMAIN pending |->
                   IF "projectile" \in DOMAIN pending[k]
                   THEN [cubeIndex |-> 0, selected |-> FALSE, remapped |-> TRUE,
                         projectile |-> pending[k].projectile]
                   ELSE Remapped]
  /\ call' = Call("selection.deleteArticles", NoPMID, pmids, FALSE, "undefined")
  /\ UNCHANGED <<camVars, app, impl, highlightedPMID, selectionData>>
  /\ UNCHANGED procVars

\* ------------------------------------------------ SelectionSystem.rayCast
\* rayCast works in lengths; here its lengths are held in twentieths (x20), so a
\* position of the layout (quarter units) is scaled by PickScale and the sphere
\* radius 0.8 * 1.5 is SphereRadius.  The arithmetic is exact, not rounded.
PickScale == 5
SphereRadius == 24

Dot(u, v) == u[1] * v[1] + u[2] * v[2] + u[3] * v[3]

\* The coefficients of the ray-sphere quadratic for one cube.
rayTest(position, origin, direction) ==
  LET oc == <<origin[1] - PickScale * position[1],
              origin[2] - PickScale * position[2],
              origin[3] - PickScale * position[3]>>
      a == Dot(direction, direction)
      b == 2 * Dot(oc, direction)
      c == Dot(oc, oc) - SphereRadius * SphereRadius
  IN [a |-> a, b |-> b, c |-> c, discriminant |-> b * b - 4 * a * c]

\* x + sqrt(P) < sqrt(Q), for an integer x and P, Q >= 0, without taking roots.
LessSumRoot(x, P, Q) ==
  IF x >= 0
  THEN LET y == Q - x * x - P IN y > 0 /\ y * y > 4 * x * x * P
  ELSE LET z == P - Q - x * x IN z < 0 \/ z * z < 4 * x * x * Q

\* distance > 0 with either root of the quadratic taken as the distance.
distancePositiveEitherRoot(t) == t.b < 0 \/ t.discriminant > t.b * t.b

\* distance > 0, where distance = (-b - Math.sqrt(discriminant)) / (2 * a), a > 0.
distancePositive(t) == t.b < 0 /\ t.b * t.b > t.discriminant

\* distanceLess with the comparison turned around: distance > closestDistance.
distanceMore(t, closest) == LessSumRoot(t.b - closest.b, t.discriminant, closest.discriminant)

\* distance < closestDistance for the distances of two cubes under one ray.
distanceLess(t, closest) == LessSumRoot(closest.b - t.b, closest.discriminant, t.discriminant)

\* The loop of rayCast over the first k cubes: the 0-based index of closestHit,
\* -1 for null.
RECURSIVE closestHit(_, _)
closestHit(tests, k) ==
  IF k = 0 THEN -1
  ELSE LET prev == closestHit(tests, k - 1)
           t == tests[k]
       IN IF /\ t.discriminant >= 0
             /\ distancePositive(t)
             /\ (prev = -1 \/ distanceLess(t, tests[prev + 1]))
          THEN k - 1
          ELSE prev

\* rayCast(origin, direction): every cube's position is computed anew by
\* dataProcessor.calculatePosition under the current layoutMode (with fresh
\* Math.random() results) and tested; nothing is changed.
rayCast(origin, direction, rnd) ==
  LET tested == [k \in 1..Len(data) |->
                   calculatePosition(layoutMode, data, instanceCount, data[k], k - 1, rnd[k - 1])]
      tests == [k \in 1..Len(data) |-> rayTest(tested[k], origin, direction)]
      hit == closestHit(tests, Len(data))
  IN /\ impl = "bits"
     /\ call' = [op |-> "rayCast",
                 pmid |-> IF hit = -1 THEN NoPMID ELSE data[hit + 1].PMID,
                 pmids |-> {}, selected |-> FALSE,
                 ret |-> IF hit = -1 THEN "null" ELSE "hit",
                 index |-> hit, origin |-> origin, direction |-> direction,
                 tested |-> tested]
     /\ UNCHANGED <<camVars, app, impl>>
     /\ UNCHANGED procVars
     /\ UNCHANGED selVars

\* ------------------------------------------------------ WebGPUHyperCube
\* setViewMode: setLayoutMode, then recomputeLayout (not awaited; it runs to
\* the end of processData within the call).
setViewMode(mode, rnd) ==
  /\ layoutMode' = mode
  /\ IF cubeData.exists
     THEN /\ cubeData' = processData(cubeData, mode, data, instanceCount, rnd)
          /\ call' = Call("setViewMode", NoPMID, {}, FALSE, "undefined")
     ELSE /\ cubeData' = cubeData
          /\ call' = Call("setViewMode", NoPMID, {}, FALSE, "throws")
  /\ UNCHANGED <<camVars, app, impl, data, instanceCount, renderBindGroup>>
  /\ UNCHANGED selVars

\* deleteSelected: nothing happens on an empty selection or a declined confirm();
\* otherwise the selected records are deleted and the selection is cleared.  Every
\* await in it is on a promise that is already resolved, so no event handler runs
\* in between.  If deleteArticles throws, clearSelection is not reached.
deleteSelected(confirmed, rnd) ==
  LET selected == selectedPMIDs
      kept == filterOut(data, selected)
  IN IF selected = {} \/ ~confirmed
     THEN /\ call' = Call("deleteSelected", NoPMID, selected, confirmed, "undefined")
          /\ UNCHANGED <<camVars, app, impl>>
          /\ UNCHANGED procVars
          /\ UNCHANGED selVars
     ELSE /\ data' = kept
          /\ instanceCount' = Len(kept)
          /\ IF cubeData.exists
             THEN /\ cubeData' = processData(cubeData, layoutMode, kept, Len(kept), rnd)
                  /\ selectedPMIDs' = {}
                  /\ highlightedPMID' = NoPMID
                  /\ selectionData' =
                       IF impl = "word" /\ selectionBuffer.exists /\ selectionData.exists
                       THEN clearedData ELSE selectionData
                  /\ selectionBuffer' =
                       IF impl = "bits" THEN Zeros(Len(selectionBuffer.cells))
                       ELSE IF selectionBuffer.exists /\ selectionData.exists
                       THEN clearedBuffer ELSE selectionBuffer
                  /\ call' = Call("deleteSelected", NoPMID, selected, confirmed, "undefined")
             ELSE /\ cubeData' = cubeData
                  /\ UNCHANGED <<selectedPMIDs, highlightedPMID, selectionData, selectionBuffer>>
                  /\ call' = Call("deleteSelected", NoPMID, selected, confirmed, "throws")
          /\ UNCHANGED <<camVars, app, impl, layoutMode, renderBindGroup, selectionStagingBuffer, pending>>

\* deleteSelected with its suspension points.  At each await the call gives way
\* to whatever is ready to run: the continuation of another async call, or a
\* caller that did not await this one.
\* Up to the first await: getSelected() is evaluated and awaited.
deleteSelectedCall ==
  /\ app.pc = "idle"
  /\ app' = [pc |-> "getSelected", selected |-> selectedPMIDs]
  /\ call' = Call("deleteSelected", NoPMID, selectedPMIDs, FALSE, "pending")
  /\ UNCHANGED <<camVars, impl>>
  /\ UNCHANGED procVars
  /\ UNCHANGED selVars

\* From there to the await of dataProcessor.deleteArticles(selected): the
\* records are filtered and the instance buffer is rewritten before
\* deleteArticles suspends.  An empty snapshot, a declined confirm() and a
\* throwing deleteArticles end the call.
deleteSelectedDelete(confirmed, rnd) ==
  LET selected == app.selected
      kept == filterOut(data, selected)
  IN /\ app.pc = "getSelected"
     /\ IF selected = {} \/ ~confirmed
        THEN /\ app' = Idle
             /\ call' = Call("deleteSelected", NoPMID, selected, confirmed, "undefined")
             /\ UNCHANGED procVars
        ELSE /\ data' = kept
             /\ instanceCount' = Len(kept)
             /\ IF cubeData.exists
                THEN /\ cubeData' = processData(cubeData, layoutMode, kept, Len(kept), rnd)
                     /\ app' = [app EXCEPT !.pc = "deleteArticles"]
                     /\ call' = Call("deleteSelected", NoPMID, selected, confirmed, "pending")
                ELSE /\ cubeData' = cubeData
                     /\ app' = Idle
                     /\ call' = Call("deleteSelected", NoPMID, selected, confirmed, "throws")
             /\ UNCHANGED <<layoutMode, renderBindGroup>>
     /\ UNCHANGED <<camVars, impl>>
     /\ UNCHANGED selVars

\* From the resolution of deleteArticles to the end: clearSelection empties the
\* set and zeroes the encoding; what follows its await changes nothing here.
deleteSelectedClear ==
  /\ app.pc = "deleteArticles"
  /\ app' = Idle
  /\ selectedPMIDs' = {}
  /\ highlightedPMID' = NoPMID
  /\ selectionData' =
       IF impl = "word" /\ selectionBuffer.exists /\ selectionData.exists
       THEN clearedData ELSE selectionData
  /\ selectionBuffer' =
       IF impl = "bits" THEN Zeros(Len(selectionBuffer.cells))
       ELSE IF selectionBuffer.exists /\ selectionData.exists
       THEN clearedBuffer ELSE selectionBuffer
  /\ call' = Call("deleteSelected", NoPMID, app.selected, TRUE, "undefined")
  /\ UNCHANGED <<camVars, impl, selectionStagingBuffer, pending>>
  /\ UNCHANGED procVars

\* ------------------------------------- camera, controls and frame actions
\* CameraSystem.moveForward(distance), distance in PosUnit.
moveForward(distance) ==
  LET direction == normalize(subtractVectors(camera.target, camera.position))
  IN /\ camera.writes < MaxWrites
     /\ camera' = updateMatrices(movedBy(camera, scaleVector(direction, distance, DirUnit)),
                                 renderer.canvas)
     /\ call' = Call("moveForward", NoPMID, {}, FALSE, "undefined")
     /\ UNCHANGED <<renderer, controls>>
     /\ UNCHANGED storeVars

\* CameraSystem.moveRight(distance)
moveRight(distance) ==
  LET direction == normalize(subtractVectors(camera.target, camera.position))
      right == cross(direction, up)
  IN /\ camera.writes < MaxWrites
     /\ camera' = updateMatrices(movedBy(camera, scaleVector(right, distance, DirUnit)),
                                 renderer.canvas)
     /\ call' = Call("moveRight", NoPMID, {}, FALSE, "undefined")
     /\ UNCHANGED <<renderer, controls>>
     /\ UNCHANGED storeVars

\* CameraSystem.rotate(yaw, pitch): the pose is left alone, the matrices are
\* recomputed.
rotate(yaw, pitch) ==
  /\ camera.writes < MaxWrites
  /\ camera' = updateMatrices(camera, renderer.canvas)
  /\ call' = Call("rotate", NoPMID, {}, FALSE, "undefined")
  /\ UNCHANGED <<renderer, controls>>
  /\ UNCHANGED storeVars

\* CameraSystem.updateMatrices()
cameraUpdateMatrices ==
  /\ camera.writes < MaxWrites
  /\ camera' = updateMatrices(camera, renderer.canvas)
  /\ call' = Call("updateMatrices", NoPMID, {}, FALSE, "undefined")
  /\ UNCHANGED <<renderer, controls>>
  /\ UNCHANGED storeVars

\* The ray of a projectile as rayCast takes it: the origin in twentieths, and
\* the camera's direction at a length that keeps the quadratic's coefficients
\* small (rayCast's result does not depend on the length of the direction; a
\* direction of [0, 0, 0] or with a NaN hits nothing).
rayOrigin(cam) == [k \in 1..3 |-> RoundDiv(cam.position[k], PosUnit \div 20)]
rayDirection(cam) ==
  LET direction == subtractVectors(cam.target, cam.position)
  IN [k \in 1..3 |-> RoundDiv(direction[k], 200)]

\* What the listeners of 'projectile-fired' do within the event that fired, as
\* a conjunct of the handler that called generateProjectile (fired).  Only the
\* bit-per-cube SelectionSystem listens: handleProjectile runs rayCast and, on
\* a hit, selectByPMID(hit.pmid, true) up to the await of mapAsync, where it is
\* suspended or, the staging buffer being empty, rejects.  dispatched counts
\* the 'cube-selected' events dispatched.
handleProjectile(op, fired) ==
  \E rnd \in RandomDraws(layoutMode, Len(data)) :
    LET aimed == fired /\ impl = "bits" /\ ~HasNaN(camera.position) /\ ~HasNaN(camera.target)
        tested == [k \in 1..Len(data) |->
                     calculatePosition(layoutMode, data, instanceCount, data[k], k - 1, rnd[k - 1])]
        tests == [k \in 1..Len(data) |->
                    rayTest(tested[k], rayOrigin(camera), rayDirection(camera))]
        hit == IF aimed THEN closestHit(tests, Len(data)) ELSE -1
        pmid == data[hit + 1].PMID
        cubeIndex == findIndex(data, pmid)
        byteIndex == cubeIndex \div BitsPerByte
        copied == /\ byteIndex < Len(selectionBuffer.cells)
                  /\ Len(selectionStagingBuffer.cells) >= 1
    IN IF hit = -1
       THEN /\ call' = [op |-> op, pmid |-> NoPMID, pmids |-> {}, selected |-> FALSE,
                        ret |-> "undefined", fired |-> fired, dispatched |-> 0]
            /\ UNCHANGED selVars
       ELSE /\ selectedPMIDs' = selectedAfter(pmid, TRUE)
            /\ highlightedPMID' = highlightedAfter(pmid, TRUE)
            /\ selectionStagingBuffer' =
                 IF copied
                 THEN writeCell(selectionStagingBuffer, 0, selectionBuffer.cells[byteIndex + 1])
                 ELSE selectionStagingBuffer
            /\ IF Len(selectionStagingBuffer.cells) = 0
               THEN /\ pending' = pending
                    /\ call' = [op |-> op, pmid |-> pmid, pmids |-> {}, selected |-> TRUE,
                                ret |-> "throws", fired |-> fired, dispatched |-> 0]
               ELSE /\ Len(pending) < MaxPending
                    /\ pending' = Append(pending, [cubeIndex |-> cubeIndex, selected |-> TRUE,
                                                   remapped |-> FALSE, projectile |-> pmid])
                    /\ call' = [op |-> op, pmid |-> pmid, pmids |-> {}, selected |-> TRUE,
                                ret |-> "pending", fired |-> fired, dispatched |-> 0]
            /\ UNCHANGED <<selectionBuffer, selectionData>>

\* handleProjectile resumed when mapAsync resolves: the rest of
\* updateGPUSelection as for any selectByPMID, then the 'cube-selected' event is
\* dispatched; if getMappedRange throws, handleProjectile rejects before it.
handleProjectileResume ==
  /\ impl = "bits"
  /\ pending # <<>>
  /\ "projectile" \in DOMAIN Head(pending)
  /\ LET p == Head(pending)
         byteIndex == p.cubeIndex \div BitsPerByte
         bitIndex == p.cubeIndex % BitsPerByte
         currentByte == selectionStagingBuffer.cells[1]
     IN IF p.remapped \/ Len(selectionStagingBuffer.cells) = 0
        THEN /\ selectionBuffer' = selectionBuffer
             /\ call' = [op |-> "handleProjectile", pmid |-> p.projectile, pmids |-> {},
                         selected |-> TRUE, ret |-> "throws", fired |-> FALSE, dispatched |-> 0]
        ELSE /\ selectionBuffer' =
                  writeCell(selectionBuffer, byteIndex, updatedByte(currentByte, bitIndex, TRUE))
             /\ call' = [op |-> "handleProjectile", pmid |-> p.projectile, pmids |-> {},
                         selected |-> TRUE, ret |-> "undefined", fired |-> FALSE, dispatched |-> 1]
  /\ pending' = Tail(pending)
  /\ UNCHANGED <<camVars, app, impl, selectedPMIDs, highlightedPMID, selectionData, selectionStagingBuffer>>
  /\ UNCHANGED procVars

\* onMouseDown: a left click while pointer-locked starts a drag and, unless it
\* is on a UI element, generates a projectile.
onMouseDown(button, onUI, point) ==
  LET handled == button = 0 /\ controls.isPointerLocked
      dragging == [controls EXCEPT !.mouse.isDragging = TRUE,
                                   !.mouse.prevX = point[1],
                                   !.mouse.prevY = point[2]]
      fired == handled /\ ~onUI
  IN /\ fired => controls.fired < MaxFires
     /\ controls' = IF ~handled THEN controls
                    ELSE IF fired THEN generateProjectile(dragging, camera) ELSE dragging
     /\ handleProjectile("onMouseDown", fired)
     /\ UNCHANGED <<camera, renderer, impl, app>>
     /\ UNCHANGED procVars

onMouseUp(button) ==
  /\ controls' = IF button = 0 THEN [controls EXCEPT !.mouse.isDragging = FALSE] ELSE controls
  /\ call' = Call("onMouseUp", NoPMID, {}, FALSE, "undefined")
  /\ UNCHANGED <<camera, renderer>>
  /\ UNCHANGED storeVars

enable ==
  /\ controls' = [controls EXCEPT !.isEnabled = TRUE]
  /\ call' = Call("enable", NoPMID, {}, FALSE, "undefined")
  /\ UNCHANGED <<camera, renderer>>
  /\ UNCHANGED storeVars

disable ==
  /\ controls' = [controls EXCEPT !.isEnabled = FALSE, !.keys = {}, !.mouse.isDragging = FALSE]
  /\ call' = Call("disable", NoPMID, {}, FALSE, "undefined")
  /\ UNCHANGED <<camera, renderer>>
  /\ UNCHANGED storeVars

\* onPointerLockChange, locked being document.pointerLockElement === this.canvas.
onPointerLockChange(locked) ==
  /\ controls' =
       IF locked
       THEN [controls EXCEPT !.isPointerLocked = TRUE,
                             !.mouse.prevX = renderer.canvas[1] \div 2,
                             !.mouse.prevY = renderer.canvas[2] \div 2]
       ELSE [controls EXCEPT !.isPointerLocked = FALSE,
                             !.mouse.isDragging = FALSE,
                             !.keys = {}]
  /\ call' = Call("onPointerLockChange", NoPMID, {}, locked, "undefined")
  /\ UNCHANGED <<camera, renderer>>
  /\ UNCHANGED storeVars

\* onMouseMove: while pointer-locked and enabled the movement is recorded, and
\* a drag in progress turns the camera by it (handleRotation).
onMouseMove(movement) ==
  /\ IF ~controls.isPointerLocked \/ ~controls.isEnabled
     THEN UNCHANGED <<camera, controls>>
     ELSE IF controls.mouse.isDragging
     THEN /\ camera.writes < MaxWrites
          /\ camera' = updateMatrices(rotateCamera(camera, movement[1], movement[2]),
                                      renderer.canvas)
          /\ controls' = [controls EXCEPT !.mouse.x = 0, !.mouse.y = 0]
     ELSE /\ controls' = [controls EXCEPT !.mouse.x = movement[1], !.mouse.y = movement[2]]
          /\ UNCHANGED camera
  /\ call' = Call("onMouseMove", NoPMID, {}, FALSE, "undefined")
  /\ UNCHANGED renderer
  /\ UNCHANGED storeVars

\* onKeyDown: while pointer-locked and enabled the key is held; 'g' generates a
\* projectile.
onKeyDown(key) ==
  LET handled == controls.isPointerLocked /\ controls.isEnabled
      held == [controls EXCEPT !.keys = controls.keys \cup {key}]
      fired == handled /\ key = "g"
  IN /\ fired => controls.fired < MaxFires
     /\ controls' = IF ~handled THEN controls
                    ELSE IF fired THEN generateProjectile(held, camera) ELSE held
     /\ handleProjectile("onKeyDown", fired)
     /\ UNCHANGED <<camera, renderer, impl, app>>
     /\ UNCHANGED procVars

onKeyUp(key) ==
  /\ controls' = [controls EXCEPT !.keys = controls.keys \ {key}]
  /\ call' = Call("onKeyUp", NoPMID, {}, FALSE, "undefined")
  /\ UNCHANGED <<camera, renderer>>
  /\ UNCHANGED storeVars

\* onWheel: zoomAmount is 1.1 for deltaY > 0 and 0.9 otherwise.
onWheel(deltaY) ==
  /\ IF ~controls.isEnabled
     THEN camera' = camera
     ELSE /\ camera.writes < MaxWrites
          /\ camera' = updateMatrices(zoomed(camera, IF deltaY > 0 THEN 1 ELSE -1, 10),
                                      renderer.canvas)
  /\ call' = Call("onWheel", NoPMID, {}, deltaY > 0, "undefined")
  /\ UNCHANGED <<renderer, controls>>
  /\ UNCHANGED storeVars

\* onTouchStart: one touch starts a drag, two touches start a pinch.
onTouchStart(touches) ==
  /\ controls' =
       IF ~controls.isEnabled THEN controls
       ELSE IF Len(touches) = 1
       THEN [controls EXCEPT !.mouse.isDragging = TRUE,
                             !.mouse.prevX = touches[1][1],
                             !.mouse.prevY = touches[1][2]]
       ELSE IF Len(touches) = 2
       THEN [controls EXCEPT !.touchStartDistance = getTouchDistance(touches),
                             !.isPinching = TRUE]
       ELSE controls
  /\ call' = Call("onTouchStart", NoPMID, {}, FALSE, "undefined")
  /\ UNCHANGED <<camera, renderer>>
  /\ UNCHANGED storeVars

\* onTouchMove: a drag turns the camera by the touch's displacement, a pinch
\* zooms by touchStartDistance / currentDistance.
onTouchMove(touches) ==
  /\ IF ~controls.isEnabled
     THEN UNCHANGED <<camera, controls>>
     ELSE IF controls.mouse.isDragging /\ Len(touches) = 1
     THEN /\ camera.writes < MaxWrites
          /\ camera' = updateMatrices(
                         rotateCamera(camera, touches[1][1] - controls.mouse.prevX,
                                              touches[1][2] - controls.mouse.prevY),
                         renderer.canvas)
          /\ controls' = [controls EXCEPT !.mouse.x = 0, !.mouse.y = 0,
                                          !.mouse.prevX = touches[1][1],
                                          !.mouse.prevY = touches[1][2]]
     ELSE IF controls.isPinching /\ Len(touches) = 2
     THEN LET currentDistance == getTouchDistance(touches)
          IN /\ camera.writes < MaxWrites
             /\ camera' = updateMatrices(
                            zoomed(camera, controls.touchStartDistance - currentDistance,
                                   currentDistance),
                            renderer.canvas)
             /\ controls' = [controls EXCEPT !.touchStartDistance = currentDistance]
     ELSE UNCHANGED <<camera, controls>>
  /\ call' = Call("onTouchMove", NoPMID, {}, FALSE, "undefined")
  /\ UNCHANGED renderer
  /\ UNCHANGED storeVars

onTouchEnd ==
  /\ controls' = [controls EXCEPT !.mouse.isDragging = FALSE, !.isPinching = FALSE]
  /\ call' = Call("onTouchEnd", NoPMID, {}, FALSE, "undefined")
  /\ UNCHANGED <<camera, renderer>>
  /\ UNCHANGED storeVars

\* The canvas is given another width and height (by the page; no code of the
\* application does it).
resizeCanvas(size) ==
  /\ renderer' = [renderer EXCEPT !.canvas = size]
  /\ call' = Call("resize", NoPMID, {}, FALSE, "undefined")
  /\ UNCHANGED <<camera, controls>>
  /\ UNCHANGED storeVars

\* animate: controls.update() is called without a deltaTime (which makes every
\* product with it NaN); while enabled and pointer-locked it moves the camera by
\* the keys held, updates the projectiles and recomputes the matrices.  Then
\* the frame is rendered.
animate ==
  LET updating == controls.isEnabled /\ controls.isPointerLocked
      moved == handleMovement(camera, controls.keys, NaN)
      updated == IF updating THEN updateMatrices(moved, renderer.canvas) ELSE camera
  IN /\ updating => camera.writes < MaxWrites
     /\ camera' = updated
     /\ controls' = IF updating
                    THEN [controls EXCEPT !.projectiles =
                            updateProjectiles(controls.projectiles, NaN, moved.position)]
                    ELSE controls
     /\ renderer' = render(renderer, updated)
     /\ call' = Call("animate", NoPMID, {}, FALSE, "undefined")
     /\ UNCHANGED storeVars

\* animate after the uniform buffer has been written MaxWrites times, in the
\* specification that lets the frame loop run for ever: controls.update() and
\* render as in animate, with the camera, whose time and count of writes are
\* not carried beyond the bound, left as it is.
animateBeyond ==
  LET moved == handleMovement(camera, controls.keys, NaN)
  IN /\ controls.isEnabled /\ controls.isPointerLocked
     /\ camera.writes = MaxWrites
     /\ controls' = [controls EXCEPT !.projectiles =
                       updateProjectiles(controls.projectiles, NaN, moved.position)]
     /\ renderer' = render(renderer, camera)
     /\ call' = Call("animate", NoPMID, {}, FALSE, "undefined")
     /\ UNCHANGED camera
     /\ UNCHANGED storeVars

\* ----------------------------------------------------- the specifications
\* Spec: the DataProcessor, either SelectionSystem and the application, on up
\* to MaxLoaded records under the grid layout.
Next ==
  \/ \E records \in LoadedDatasets : \E rnd \in RandomDraws(layoutMode, Len(records)) :
       uploadData(records, rnd)
  \/ \E mode \in FixedModes : setLayoutMode(mode)
  \/ \E rnd \in RandomDraws(layoutMode, instanceCount) : recomputeLayout(rnd)
  \/ \E pmids \in SUBSET LoadedPMIDs : \E rnd \in RandomDraws(layoutMode, instanceCount) :
       deleteArticles(pmids, rnd)
  \/ initializeSelectionBuffer
  \/ \E pmid \in LoadedPMIDs : \E selected \in BOOLEAN : selectByPMID(pmid, selected)
  \/ clearSelection
  \/ \E pmid \in LoadedPMIDs : \E selected \in BOOLEAN : gpuSelectByPMID(pmid, selected)
  \/ updateGPUSelection
  \/ gpuClearSelection
  \/ \E pmids \in SUBSET LoadedPMIDs : selectionDeleteArticles(pmids)
  \/ \E mode \in FixedModes : \E rnd \in RandomDraws(mode, instanceCount) :
       setViewMode(mode, rnd)
  \/ \E confirmed \in BOOLEAN : \E rnd \in RandomDraws(layoutMode, instanceCount) :
       deleteSelected(confirmed, rnd)

Spec == Init /\ [][Next]_vars

\* SpecStore: the DataProcessor alone, under every layout mode.
InitStore == Init /\ impl = "word"

NextStore ==
  \/ \E records \in Datasets : \E rnd \in RandomDraws(layoutMode, Len(records)) :
       uploadData(records, rnd)
  \/ \E mode \in LayoutModes : setLayoutMode(mode)
  \/ \E rnd \in RandomDraws(layoutMode, instanceCount) : recomputeLayout(rnd)
  \/ \E pmids \in SUBSET PMIDs : \E rnd \in RandomDraws(layoutMode, instanceCount) :
       deleteArticles(pmids, rnd)
  \/ \E mode \in LayoutModes : \E rnd \in RandomDraws(mode, instanceCount) :
       setViewMode(mode, rnd)

SpecStore == InitStore /\ [][NextStore]_vars

\* SpecPick: the DataProcessor and rayCast of the bit-per-cube SelectionSystem,
\* under every layout mode.  Ray origins include the places the layouts put a
\* single record; directions are not normalised by rayCast.
Origins == {<<-150, 0, -50>>, <<100, 0, -50>>, <<-25, 0, -25>>, <<0, 0, 0>>, <<-40, 0, -50>>}
Directions == {<<1, 0, 0>>, <<-1, 0, 0>>, <<0, 0, 1>>, <<1, 0, 1>>}

InitPick == Init /\ impl = "bits"

NextPick ==
  \/ \E records \in LoadedDatasets : \E rnd \in RandomDraws(layoutMode, Len(records)) :
       uploadData(records, rnd)
  \/ \E mode \in LayoutModes : setLayoutMode(mode)
  \/ \E rnd \in RandomDraws(layoutMode, instanceCount) : recomputeLayout(rnd)
  \/ \E pmids \in SUBSET LoadedPMIDs : \E rnd \in RandomDraws(layoutMode, instanceCount) :
       deleteArticles(pmids, rnd)
  \/ \E origin \in Origins : \E direction \in Directions :
       \E rnd \in RandomDraws(layoutMode, Len(data)) : rayCast(origin, direction, rnd)

SpecPick == InitPick /\ [][NextPick]_vars

\* SpecLayout: the DataProcessor's layout on data sets with varied PubYear
\* texts and on up to MaxGrid records, under every layout mode.
NextLayout ==
  \/ \E records \in LayoutDatasets : \E rnd \in RandomDraws(layoutMode, Len(records)) :
       uploadData(records, rnd)
  \/ \E rnd \in RandomDraws(layoutMode, instanceCount) : recomputeLayout(rnd)
  \/ \E mode \in LayoutModes : \E rnd \in RandomDraws(mode, instanceCount) :
       setViewMode(mode, rnd)

SpecLayout == InitStore /\ [][NextLayout]_vars

\* SpecUpload: the DataProcessor with uploads whose buffer creation fails.
NextUpload ==
  \/ \E records \in Datasets : \E rnd \in RandomDraws(layoutMode, Len(records)) :
       uploadData(records, rnd)
  \/ \E records \in Datasets : \E outcome \in CreateBufferFailures :
       uploadDataCreateBufferFails(records, outcome)
  \/ \E rnd \in RandomDraws(layoutMode, instanceCount) : recomputeLayout(rnd)
  \/ \E pmids \in SUBSET PMIDs : \E rnd \in RandomDraws(layoutMode, instanceCount) :
       deleteArticles(pmids, rnd)

SpecUpload == InitStore /\ [][NextUpload]_vars

\* SpecDelete: the application's deleteSelected, step by step, with the calls
\* of either SelectionSystem that can run at its await points.
NextDelete ==
  \/ \E records \in LoadedDatasets : \E rnd \in RandomDraws(layoutMode, Len(records)) :
       uploadData(records, rnd)
  \/ initializeSelectionBuffer
  \/ \E pmid \in LoadedPMIDs : \E selected \in BOOLEAN : selectByPMID(pmid, selected)
  \/ \E pmid \in LoadedPMIDs : \E selected \in BOOLEAN : gpuSelectByPMID(pmid, selected)
  \/ updateGPUSelection
  \/ \E pmids \in SUBSET LoadedPMIDs : selectionDeleteArticles(pmids)
  \/ deleteSelectedCall
  \/ \E confirmed \in BOOLEAN : \E rnd \in RandomDraws(layoutMode, instanceCount) :
       deleteSelectedDelete(confirmed, rnd)
  \/ deleteSelectedClear

SpecDelete == Init /\ [][NextDelete]_vars

\* SpecCamera: the CameraSystem, the Controls' handlers that move it, and the
\* frame loop, with one record loaded or none.  The canvas is one whose centre
\* is a touch point.
TouchPoints == {<<400, 740>>, <<400, 1150>>}
Pinches == {<<<<400, 700>>, <<400, 800>>>>, <<<<400, 700>>, <<400, 900>>>>}
TouchLists == {<<p>> : p \in TouchPoints} \cup Pinches
MouseMovements == {<<0, 300>>}
MovementKeys == {"w"}
FrameDatasets == {<<Article(1)>>}

InitCamera == Init /\ impl = "word"

NextCamera ==
  \/ \E records \in FrameDatasets : \E rnd \in RandomDraws(layoutMode, Len(records)) :
       uploadData(records, rnd)
  \/ moveForward(PosUnit)
  \/ moveRight(PosUnit)
  \/ rotate(0, 0)
  \/ \E locked \in BOOLEAN : onPointerLockChange(locked)
  \/ \E movement \in MouseMovements : onMouseMove(movement)
  \/ \E key \in MovementKeys : onKeyDown(key)
  \/ \E key \in MovementKeys : onKeyUp(key)
  \/ \E deltaY \in {-100, 100} : onWheel(deltaY)
  \/ \E touches \in TouchLists : onTouchStart(touches)
  \/ \E touches \in TouchLists : onTouchMove(touches)
  \/ onTouchEnd
  \/ animate

SpecCamera == InitCamera /\ [][NextCamera]_vars

\* SpecTurn: the drag that turns the camera, by touches a screen of the
\* canvas's height can report.
TurnPoints == TouchPoints \cup {<<400, 0>>, <<700, 740>>}

NextTurn ==
  \/ \E p \in TurnPoints : onTouchStart(<<p>>)
  \/ \E p \in TurnPoints : onTouchMove(<<p>>)
  \/ onTouchEnd
  \/ rotate(0, 0)

SpecTurn == InitCamera /\ [][NextTurn]_vars

\* SpecFrame: frames while the canvas is resized, records are loaded and
\* deleted, and the camera is moved.
CanvasSizes == {<<800, 1480>>, <<800, 2300>>, <<400, 740>>}

NextFrame ==
  \/ \E records \in LoadedDatasets : \E rnd \in RandomDraws(layoutMode, Len(records)) :
       uploadData(records, rnd)
  \/ \E pmids \in SUBSET LoadedPMIDs : \E rnd \in RandomDraws(layoutMode, instanceCount) :
       deleteArticles(pmids, rnd)
  \/ \E size \in CanvasSizes : resizeCanvas(size)
  \/ moveForward(PosUnit)
  \/ animate

SpecFrame == InitCamera /\ [][NextFrame]_vars

\* SpecLoad: uploads step by step, uploads whose buffer creation fails, deletes
\* and frames.  The await in uploadData is left in a microtask, and a frame or
\* another call from the page is a task of its own: it runs when no upload is
\* suspended.
NextLoad ==
  \/ \E records \in Datasets : \E rnd \in RandomDraws(layoutMode, Len(records)) :
       uploadDataCall(records, rnd)
  \/ uploadDataResume
  \/ \E records \in Datasets : \E outcome \in CreateBufferFailures :
       app.pc = "idle" /\ uploadDataCreateBufferFails(records, outcome)
  \/ \E pmids \in SUBSET PMIDs : \E rnd \in RandomDraws(layoutMode, instanceCount) :
       app.pc = "idle" /\ deleteArticles(pmids, rnd)
  \/ app.pc = "idle" /\ animate

SpecLoad == InitCamera /\ [][NextLoad]_vars

\* SpecProjectile: projectiles fired by clicks and by the 'g' key, and the
\* frame loop that updates them.
ClickPoint == <<400, 740>>

NextProjectile ==
  \/ \E locked \in BOOLEAN : onPointerLockChange(locked)
  \/ onMouseDown(0, FALSE, ClickPoint)
  \/ onKeyDown("g")
  \/ animate

SpecProjectile == InitCamera /\ [][NextProjectile]_vars

\* SpecLive: the frame loop running for ever (requestAnimationFrame calls
\* animate again after every frame) while projectiles are fired.
NextLive ==
  \/ onPointerLockChange(TRUE)
  \/ controls.fired < FewFires /\ onMouseDown(0, FALSE, ClickPoint)
  \/ animate
  \/ animateBeyond

SpecLive == InitCamera /\ [][NextLive]_vars /\ WF_vars(animateBeyond)

\* SpecControls: the input handlers of Controls and the frame loop, with the
\* controls enabled and disabled.
NextControls ==
  \/ enable
  \/ disable
  \/ \E locked \in BOOLEAN : onPointerLockChange(locked)
  \/ controls.fired < MaxShots /\ onMouseDown(0, FALSE, ClickPoint)
  \/ \E movement \in MouseMovements : onMouseMove(movement)
  \/ onMouseUp(0)
  \/ \E key \in {"w", "g"} : controls.fired < MaxShots /\ onKeyDown(key)
  \/ onWheel(100)
  \/ onTouchStart(<<<<400, 740>>>>)
  \/ onTouchMove(<<<<400, 1150>>>>)
  \/ animate

SpecControls == InitCamera /\ [][NextControls]_vars

\* SpecShoot: projectiles fired at one loaded record with the bit-per-cube
\* SelectionSystem listening.  The layout decides whether the ray from the
\* constructed pose hits the record; the selection buffers are those created
\* before the load until deleteArticles recreates them.
NextShoot ==
  \/ \E records \in FrameDatasets : \E rnd \in RandomDraws(layoutMode, Len(records)) :
       uploadData(records, rnd)
  \/ \E mode \in LayoutModes : setLayoutMode(mode)
  \/ selectionDeleteArticles({})
  \/ gpuClearSelection
  \/ onPointerLockChange(TRUE)
  \/ controls.fired < MaxShots /\ onMouseDown(0, FALSE, ClickPoint)
  \/ handleProjectileResume

SpecShoot == InitPick /\ [][NextShoot]_vars

\* SpecView: updateViewMatrix on poses drawn from ViewPoses, degenerate ones
\* among them.  The camera has the matrices init() computed for the constructed
\* pose, and position and target then hold the pose drawn: target equal to
\* position (where moveForward(1e17) leaves the constructed pose, both sums
\* rounding to the same doubles), target straight above or below position, and
\* regular poses.
ViewPoses ==
  {<<<<0, 1600, 5000>>, <<0, 0, 0>>>>,
   <<<<1000, 1600, 5000>>, <<1000, 1600, 0>>>>,
   <<<<0, 1600, 5000>>, <<0, 1600, 5000>>>>,
   <<<<0, 0, 0>>, <<0, 0, 0>>>>,
   <<<<0, 1600, 5000>>, <<0, 6600, 5000>>>>,
   <<<<0, 1600, 5000>>, <<0, -3400, 5000>>>>}

InitView ==
  /\ InitApp
  /\ impl = "word"
  /\ \E pose \in ViewPoses :
       camera = [updateMatrices(constructedCamera, DefaultCanvas)
                   EXCEPT !.position = pose[1], !.target = pose[2]]

NextView ==
  \/ cameraUpdateMatrices
  \/ \E distance \in {PosUnit, -PosUnit} : moveForward(distance)
  \/ \E distance \in {PosUnit, -PosUnit} : moveRight(distance)
  \/ rotate(0, 0)

SpecView == InitView /\ [][NextView]_vars

\* ------------------------------------------------------------ properties
\* SelectionSystem.getSelected: Array.from(selectedPMIDs).
getSelected == selectedPMIDs

\* The selection value the GPU-resident encoding holds for the cube at 0-based
\* index i, read the way the module that wrote it addresses it: word i, or bit
\* i % 8 of byte i / 8.  An index the buffer does not reach reads as 0.
Encoded(buf, i) ==
  IF impl = "word"
  THEN (IF buf.exists /\ i < Len(buf.cells) THEN buf.cells[i + 1] ELSE 0)
  ELSE (IF i \div BitsPerByte < Len(buf.cells)
        THEN bitOf(buf.cells[(i \div BitsPerByte) + 1], i % BitsPerByte) ELSE 0)

\* The number of cubes the encoding has an entry for.
EntryCount(buf) == IF impl = "word" THEN Len(buf.cells) ELSE BitsPerByte * Len(buf.cells)

AllZero(buf) == \A k \in DOMAIN buf.cells : buf.cells[k] = 0

Indices == 0..(Len(data) - 1)

\* C1 (as claimed): once the word-per-cube selection buffer exists, after every
\* completed operation the encoding at index i is 1 exactly when the id of the
\* record at index i is in the CPU selection set, for every i below the record count.
C1_EncodingMatchesSet ==
  (impl = "word" /\ selectionBuffer.exists) =>
    \A i \in Indices :
      Encoded(selectionBuffer, i) = (IF data[i + 1].PMID \in selectedPMIDs THEN 1 ELSE 0)

\* C2: after a completed upload, recompute (alone or through setViewMode) or
\* delete, instanceCount is the number of records and slot i of the instance
\* buffer holds the attributes the current layout gives the record at index i.
C2_InstancesFollowRecords ==
  (call.op \in {"uploadData", "recomputeLayout", "deleteArticles", "setViewMode"}
     /\ call.ret = "undefined") =>
    /\ instanceCount = Len(data)
    /\ \A i \in Indices :
         /\ i < Len(cubeData.slots)
         /\ \E rnd \in JitterSamples :
              cubeData.slots[i + 1] = Instance(layoutMode, data, Len(data), i, rnd)

\* C2 witness: a delete has moved record 3 from index 2 to index 1 under a
\* layout that places by index.
C2_Witness ==
  /\ call.op = "deleteArticles"
  /\ call.ret = "undefined"
  /\ call.pmids = {2}
  /\ IdsOf(data) = {1, 3}
  /\ Len(cubeData.slots) = 3
  /\ layoutMode = "cluster"

\* C3 (as claimed): after DataProcessor.deleteArticles(ids) returns, no id in
\* ids is in getSelected().
C3_DeletedIdsNotSelected ==
  (call.op = "deleteArticles" /\ call.ret = "undefined") => call.pmids \cap getSelected = {}

\* C4: deleteArticles(ids) leaves exactly the records whose id is not in ids, in
\* their previous relative order; instanceCount drops by the number of records
\* removed; ids that match no record leave the records and the count as they were.
C4_DeleteKeepsSurvivorsInOrder ==
  [][call'.op = "deleteArticles" =>
       /\ instanceCount' = Len(data) - Cardinality({k \in DOMAIN data : data[k].PMID \in call'.pmids})
       /\ Len(data') = instanceCount'
       /\ IdsOf(data') = IdsOf(data) \ call'.pmids
       /\ \A j, k \in DOMAIN data' :
            j < k => findIndex(data, data'[j].PMID) < findIndex(data, data'[k].PMID)
       /\ (call'.pmids \cap IdsOf(data) = {} => data' = data /\ instanceCount' = instanceCount)
    ]_vars

\* C4 witness: the middle one of three records was deleted and two remain.
C4_Witness ==
  /\ call.op = "deleteArticles"
  /\ call.pmids = {2}
  /\ Len(cubeData.slots) = 3
  /\ Len(data) = 2
  /\ data[1].PMID = 1
  /\ data[2].PMID = 3

\* C5: with data uploaded, selectByPMID of a loaded id returns true, and
\* afterwards getSelected() contains the id if the call selected it and does
\* not contain it if the call deselected it (word-per-cube SelectionSystem).
C5_SelectThenGetSelected ==
  (impl = "word" /\ call.op = "selectByPMID" /\ cubeData.exists /\ call.pmid \in IdsOf(data)) =>
    /\ call.ret = "true"
    /\ (call.selected <=> call.pmid \in getSelected)

\* C5 witness: a loaded id was deselected while the other one stays selected.
C5_Witness ==
  /\ impl = "word"
  /\ call.op = "selectByPMID"
  /\ call.ret = "true"
  /\ ~call.selected
  /\ call.pmid \in IdsOf(data)
  /\ getSelected = IdsOf(data) \ {call.pmid}
  /\ getSelected # {}
  /\ selectionBuffer.exists

\* C6: selectByPMID with an id that no current record has returns false and
\* leaves the selection set, the highlighted id and the encoding as they were.
C6_UnknownIdChangesNothing ==
  [][(call'.op = "selectByPMID" /\ call'.pmid # NoPMID /\ call'.pmid \notin IdsOf(data)) =>
       /\ call'.ret = "false"
       /\ UNCHANGED <<selectedPMIDs, highlightedPMID, selectionBuffer, selectionData>>
    ]_vars

\* C6 witness: an id that is not loaded was refused while another id is
\* selected and encoded.
C6_Witness ==
  /\ call.op = "selectByPMID"
  /\ call.ret = "false"
  /\ cubeData.exists
  /\ data # <<>>
  /\ call.pmid \notin IdsOf(data)
  /\ selectedPMIDs # {}
  /\ highlightedPMID # NoPMID
  /\ \E i \in Indices : Encoded(selectionBuffer, i) = 1

\* The index a selectByPMID step that returns true has written: the index of
\* the id, or the index the resumed call looked up before it suspended.
writtenIndex == IF impl = "word" THEN findIndex(data, call'.pmid) ELSE Head(pending).cubeIndex

\* C7 (as claimed): a selectByPMID that returns true leaves the encoding of
\* every index other than the id's as it was, and a selectByPMID that updates
\* the set leaves the membership of every other id as it was.
C7_SelectWritesOneIndex ==
  [][/\ (call'.op = "selectByPMID" /\ call'.ret = "true") =>
          \A i \in Indices :
             i # writtenIndex => Encoded(selectionBuffer', i) = Encoded(selectionBuffer, i)
     /\ (call'.op = "selectByPMID" /\ call'.pmid # NoPMID) =>
          \A q \in PMIDs \ {call'.pmid} : (q \in selectedPMIDs' <=> q \in selectedPMIDs)
    ]_vars

\* C8: clearSelection leaves the selection set empty, the highlighted id unset
\* and every cell of the encoding zero, and changes neither the records nor
\* instanceCount.
C8_ClearEmptiesSelection ==
  [][call'.op = "clearSelection" =>
       /\ selectedPMIDs' = {}
       /\ highlightedPMID' = NoPMID
       /\ AllZero(selectionBuffer')
       /\ \A i \in Indices : Encoded(selectionBuffer', i) = 0
       /\ UNCHANGED <<data, instanceCount>>
    ]_vars

\* C8 witness: clearSelection has run on loaded records with an encoding that
\* reaches every one of them.
C8_Witness ==
  /\ call.op = "clearSelection"
  /\ Len(data) = MaxLoaded
  /\ selectionBuffer.exists
  /\ EntryCount(selectionBuffer) >= Len(data)

\* Records have been deleted since the upload (the instance buffer is longer
\* than the record sequence) and SelectionSystem.deleteArticles was then called
\* with ids that no remaining record has.
notifiedOfDelete ==
  /\ call.op = "selection.deleteArticles"
  /\ call.pmids # {}
  /\ call.pmids \cap IdsOf(data) = {}
  /\ Len(cubeData.slots) > Len(data)

\* C9 (as claimed): after records are deleted and SelectionSystem.deleteArticles
\* has been called with their ids, the encoding has exactly one entry per
\* remaining record and every entry is zero.
C9_OneEntryPerRecord ==
  notifiedOfDelete =>
    /\ EntryCount(selectionBuffer) = Len(data)
    /\ AllZero(selectionBuffer)

\* C10 (as claimed): after SelectionSystem.deleteArticles(ids), the highlighted
\* id is not one of ids: if it was, it has been unset.
C10_HighlightNotDeleted ==
  call.op = "selection.deleteArticles" => highlightedPMID \notin call.pmids

\* C11 (as claimed): a recompute (recomputeLayout alone or through setViewMode)
\* leaves getSelected() as it was, and in the rewritten instance buffer the
\* selected flag of the record at index i is 1 exactly when its id is selected.
C11_SelectionSurvivesRelayout ==
  [][(call'.op \in {"recomputeLayout", "setViewMode"} /\ call'.ret = "undefined") =>
       /\ selectedPMIDs' = selectedPMIDs
       /\ \A i \in Indices :
            cubeData'.slots[i + 1].selected = (IF data[i + 1].PMID \in selectedPMIDs' THEN 1 ELSE 0)
    ]_vars

\* The size in bytes of the instance buffer.
cubeDataSize == Len(cubeData.slots) * InstanceBytes

\* C12 (as claimed): after uploadData and after deleteArticles the instance
\* buffer's size is exactly 32 bytes times the number of records.
C12_BufferSizedToRecords ==
  (call.op \in {"uploadData", "deleteArticles"} /\ call.ret = "undefined") =>
    cubeDataSize = Len(data) * InstanceBytes

\* The quadratic of each record under the ray and the positions of a rayCast call.
callTests ==
  [k \in DOMAIN call.tested |-> rayTest(call.tested[k], call.origin, call.direction)]

\* The ray enters the record's sphere in front of its origin: the line meets the
\* sphere, the origin is outside it and its centre lies ahead.
intersectsInFront(t) == t.discriminant >= 0 /\ t.c > 0 /\ t.b < 0

\* The ray enters the sphere of t before that of u: with the common a > 0,
\* -t.b - sqrt(t.discriminant) < -u.b - sqrt(u.discriminant).
entersBefore(t, u) == LessSumRoot(u.b - t.b, u.discriminant, t.discriminant)

C14_RecordAtOriginNotHit ==
  (call.op = "rayCast" /\ Len(data) = 1
     /\ call.origin = [k \in 1..3 |-> PickScale * call.tested[1][k]]) =>
    call.ret = "null"

\* C14 witness: a ray was cast from the centre of the only record.
C14_Witness ==
  /\ call.op = "rayCast"
  /\ Len(data) = 1
  /\ call.origin = [k \in 1..3 |-> PickScale * call.tested[1][k]]
  /\ call.direction = <<1, 0, 1>>
  /\ call.ret = "null"

\* C15 (as claimed): the position rayCast tests for the record at index i is
\* the position held for index i in the instance buffer.
C15_PickTestsBufferPosition ==
  call.op = "rayCast" =>
    \A i \in Indices :
      /\ i < Len(cubeData.slots)
      /\ call.tested[i + 1] = cubeData.slots[i + 1].position

\* A recompute or an upload has just rewritten the instance buffer.
rewritten ==
  call.op \in {"uploadData", "recomputeLayout", "setViewMode"} /\ call.ret = "undefined"

\* The position and the colour the instance buffer holds for index i.
positionAt(i) == cubeData.slots[i + 1].position
colorAt(i) == cubeData.slots[i + 1].color

\* C16 (as claimed): under the grid layout the record at index i is at cell
\* (i mod side, i div side) of a lattice of side ceil(sqrt(n)) with cells 2.5
\* apart, y = 0, centred at the origin (for 4 records: x and z are -1.25 or 1.25).
C16_GridCentredLattice ==
  (rewritten /\ layoutMode = "grid") =>
    LET side == CeilSqrt(Len(data))
    IN \A i \in Indices :
         positionAt(i) = <<(2 * (i % side) - (side - 1)) * 5, 0,
                           (2 * (i \div side) - (side - 1)) * 5>>

\* C17: uploadData raises no error on any record sequence, and a rewrite leaves
\* exactly one attribute tuple per record, every colour channel within [0, 1].
C17_OneTuplePerRecordColourInRange ==
  /\ call.op = "uploadData" => call.ret = "undefined"
  /\ rewritten =>
       /\ Len(cubeData.slots) = Len(data)
       /\ \A i \in Indices : \A k \in 1..3 :
            colorAt(i)[k] >= 0 /\ colorAt(i)[k] <= 5 * (CurrentYear - MinYear)

\* C17 witness: an upload of a record with an empty PubYear and a record of a
\* year after the current one.
C17_Witness ==
  /\ call.op = "uploadData"
  /\ Len(data) = 2
  /\ data[1].PubYear = <<>>
  /\ data[2].PubYear = <<2, 0, 5, 0>>

\* C18: under a mode string that is none of the known ones a rewrite raises no
\* error and places every record where the grid layout places it.
C18_UnknownModeIsGrid ==
  (layoutMode \notin {"grid", "year", "journal", "cluster"}
     /\ cubeData.exists /\ call.op \in {"uploadData", "recomputeLayout", "setViewMode"}) =>
    /\ call.ret = "undefined"
    /\ \A i \in Indices : positionAt(i) = positionByGrid(Len(data), i)

\* C18 witness: setViewMode with an unknown mode on the largest data set.
C18_Witness ==
  /\ call.op = "setViewMode"
  /\ call.ret = "undefined"
  /\ layoutMode = "timeline"
  /\ Len(data) = MaxGrid

\* The year a record's PubYear text denotes, and whether it denotes one.
parseable(a) == parseInt(a.PubYear) # NaN
yearOf(a) == parseInt(a.PubYear)

\* The interpolation weight of a colour: its red channel.
weight(color) == color[1]

\* C19 (as claimed): setViewMode leaves every colour as it was; records of the
\* same year have the same colour; a record of a later year has no lower
\* weight than one of an earlier year, and 2010 a strictly higher one than
\* 1990; a record whose year does not parse has the colour of year 2000.
C19_ColourFromYearOnly ==
  [][(call'.op \in {"uploadData", "recomputeLayout", "setViewMode"} /\ call'.ret = "undefined") =>
       LET color(i) == cubeData'.slots[i].color
       IN /\ call'.op = "setViewMode" => \A i \in DOMAIN data' : color(i) = cubeData.slots[i].color
          /\ \A i, j \in DOMAIN data' :
               (parseable(data'[i]) /\ parseable(data'[j])) =>
                 /\ yearOf(data'[i]) = yearOf(data'[j]) => color(i) = color(j)
                 /\ yearOf(data'[i]) <= yearOf(data'[j]) => weight(color(i)) <= weight(color(j))
                 /\ (yearOf(data'[i]) = 1990 /\ yearOf(data'[j]) = 2010) =>
                      weight(color(i)) < weight(color(j))
          /\ \A i \in DOMAIN data' :
               ~parseable(data'[i]) => color(i) = calculateColor([PubYear |-> <<2, 0, 0, 0>>])
    ]_vars

\* The rank of the record at index i among the records of its band (the
\* records with the same per-year offset), in record order.
bandRank(i) ==
  Cardinality({j \in 0..(i - 1) : parseYear(data[j + 1]) = parseYear(data[i + 1])})

\* C20 (as claimed): under the year layout a record is at its band's offset, at
\* the height of its rank within the band, and no two records share a position.
C20_BandStackedByRank ==
  (rewritten /\ layoutMode = "year") =>
    /\ \A i \in Indices :
         positionAt(i) = <<(parseYear(data[i + 1]) - BaseYear) * 3 * 4, bandRank(i) * 6, 0>>
    /\ \A i, j \in Indices : i # j => positionAt(i) # positionAt(j)

\* The ray's origin is strictly inside the record's sphere: the quadratic has
\* one negative and one positive root.
originInside(t) == t.c < 0

\* C29 (as claimed): a record whose sphere contains the ray's origin is hit at
\* the positive root, so a rayCast from inside a record's sphere returns a record.
C29_InsideSphereHitAtPositiveRoot ==
  call.op = "rayCast" =>
    \A k \in DOMAIN callTests : originInside(callTests[k]) => call.ret = "hit"

\* C28 (as claimed): a recomputeLayout that directly follows a recomputeLayout,
\* with the same records and the same layout mode, leaves the instance buffer
\* with the contents the first one wrote.
C28_RewriteIdempotent ==
  [][(/\ call.op = "recomputeLayout" /\ call.ret = "undefined"
      /\ call'.op = "recomputeLayout" /\ call'.ret = "undefined") =>
       /\ UNCHANGED <<data, layoutMode>>
       /\ cubeData' = cubeData
    ]_vars

\* The id of the record at 0-based index i is in the CPU selection set (1) or not (0).
memberAt(S, i) == IF data[i + 1].PMID \in S THEN 1 ELSE 0

\* C30 (as claimed): when the last of the selectByPMID calls in flight completes
\* with its own index's bit written as its call asked, and the encoding agreed
\* with the selection set at every other index before (the calls that completed
\* earlier are reflected), then the encoding agrees with the selection set at
\* every index afterwards: no earlier write is lost, on a shared byte or not.
C30_BothSelectsReflected ==
  [][(/\ impl = "bits"
      /\ Len(pending) = 1
      /\ call'.op = "selectByPMID" /\ call'.pmid = NoPMID /\ call'.ret = "true"
      /\ Head(pending).cubeIndex \in Indices
      /\ memberAt(selectedPMIDs, Head(pending).cubeIndex) = (IF Head(pending).selected THEN 1 ELSE 0)
      /\ \A i \in Indices \ {Head(pending).cubeIndex} :
           Encoded(selectionBuffer, i) = memberAt(selectedPMIDs, i)) =>
       \A i \in Indices : Encoded(selectionBuffer', i) = memberAt(selectedPMIDs', i)
    ]_vars

\* The last call was an uploadData whose createBuffer failed.
createBufferFailed == call.op = "uploadData" /\ "createBuffer" \in DOMAIN call

\* C26 (as claimed): an uploadData whose buffer creation fails raises an error
\* to its caller.
C26_CreateFailurePropagates ==
  createBufferFailed => call.ret = "throws"

\* deleteSelected has removed the records and is suspended before the
\* selection is cleared: the state a call running at that await observes.
recordsRemoved == app.pc = "deleteArticles"

\* C27 (as claimed): at the await of deleteSelected that follows the removal of
\* the records, getSelected() holds no removed id and the encoding marks no
\* index whose record is not selected.
C27_NoStaleSelectionDuringDelete ==
  recordsRemoved =>
    /\ getSelected \subseteq IdsOf(data)
    /\ \A i \in Indices :
         Encoded(selectionBuffer, i) = 1 => data[i + 1].PMID \in selectedPMIDs

\* Math.sin(maxPitch) for maxPitch = 85 degrees, in DirUnit.
MaxPitchSine == 9962

\* The sine of the camera's pitch: the height of the unit vector from the
\* position to the target.
pitchSine(cam) == normalize(subtractVectors(cam.target, cam.position))[2]

withinPitchLimit(cam) == ~IsNaN(pitchSine(cam)) /\ Abs(pitchSine(cam)) <= MaxPitchSine

\* C22 (as claimed): a rotation (a drag handled by rotateCamera, or
\* CameraSystem.rotate) of a camera whose pitch is within 85 degrees of the
\* horizontal leaves the pitch within 85 degrees, whatever the drag's size and
\* however many rotations came before.
C22_PitchStaysWithinLimit ==
  [][(call'.op \in {"onTouchMove", "rotate"} /\ withinPitchLimit(camera)) =>
       withinPitchLimit(camera')
    ]_vars

\* The pose is degenerate: target equal to position, or forward parallel to up.
degenerate(cam) ==
  LET forward == subtractVectors(cam.target, cam.position)
  IN ~HasNaN(cam.position) /\ ~HasNaN(cam.target) /\ forward[1] = 0 /\ forward[3] = 0

validBasis(view) == ~HasNaN(view.x) /\ ~HasNaN(view.y) /\ ~HasNaN(view.z) /\ ~HasNaN(view.t)

\* C23 (as claimed): when the pose is degenerate (target equal to position, or
\* forward parallel to up) and the view matrix holds a valid basis, a
\* recomputation of the matrices leaves the view matrix as it was, without a NaN.
C23_DegeneratePoseKeepsBasis ==
  [][(call'.op \in {"updateMatrices", "rotate"} /\ degenerate(camera)
        /\ validBasis(camera.viewMatrix)) =>
       (validBasis(camera'.viewMatrix) /\ camera'.viewMatrix = camera.viewMatrix)
    ]_vars

\* C24: the time of the uniform block never decreases or resets: it starts at
\* one step after init(), every write of the uniform block adds exactly one
\* step (time is held in steps of 0.01) and nothing else changes it, so that
\* after k writes it is k steps, whatever the frames and events in between.
C24_TimeAdvancesOneStepPerWrite ==
  /\ camera.uniformBuffer.time = camera.writes
  /\ [][/\ camera'.uniformBuffer.time >= camera.uniformBuffer.time
        /\ camera'.uniformBuffer.time - camera.uniformBuffer.time = camera'.writes - camera.writes
        /\ camera'.uniformBuffer.time = camera'.writes
        /\ camera'.time = camera'.uniformBuffer.time
       ]_vars

\* C24 witness: the block has been written MaxWrites times, the last time by a
\* frame's controls.update(), and its time is MaxWrites steps.
C24_Witness ==
  /\ call.op = "animate"
  /\ camera.writes = MaxWrites
  /\ camera.uniformBuffer.time = MaxWrites

\* The uniform block b holds the eye position and the view-projection of cam's
\* current position and target.
serialized(b, cam) ==
  /\ b.position = cam.position
  /\ b.viewProjectionMatrix =
       multiplyMatrices(cam.projectionMatrix, updateViewMatrix(cam.position, cam.target))

\* C21: after every pose mutation (moveForward, moveRight, rotate, wheel, touch
\* drag and pinch, mouse drag, keyboard movement) the uniform block holds the
\* eye position and the view-projection of the camera's current position and
\* target, and so does the uniform block every submitted frame draws with.
C21_FramesUseCurrentPose ==
  /\ serialized(camera.uniformBuffer, camera)
  /\ (call.op = "animate" /\ renderer.frame.drawn) => serialized(renderer.frame.uniform, camera)

\* C21 witness: a frame was drawn after the camera was turned and moved.
C21_Witness ==
  /\ call.op = "animate"
  /\ renderer.frame.drawn
  /\ ~HasNaN(camera.position)
  /\ camera.position # constructedCamera.position
  /\ subtractVectors(camera.target, camera.position)
       # subtractVectors(constructedCamera.target, constructedCamera.position)
  /\ renderer.frame.uniform.position = camera.position

\* C25: every frame that is submitted draws on a depth texture of the width and
\* height the canvas has at that frame, which are those of its colour target.
C25_DepthMatchesCanvasAtDraw ==
  (call.op = "animate" /\ renderer.frame.drawn) =>
    /\ renderer.frame.depth = renderer.canvas
    /\ renderer.frame.depth = renderer.frame.color
    /\ renderer.depthTexture = renderer.canvas

\* C25 witness: a frame was drawn after the canvas was resized to a size that
\* is not the one the depth texture was created with.
C25_Witness ==
  /\ call.op = "animate"
  /\ renderer.frame.drawn
  /\ renderer.canvas # DefaultCanvas
  /\ renderer.frame.depth = renderer.canvas

\* C31: in every state of the DataProcessor, the states in which an upload is
\* suspended at its await and those after a failed upload included,
\* instanceCount is the number of records.
C31_CountIsRecordCount == instanceCount = Len(data)

\* C31 witness: an upload of three records is suspended at its await, after an
\* earlier upload of two records.
C31_Witness ==
  /\ app.pc = "uploadData"
  /\ instanceCount = 3
  /\ renderBindGroup.exists
  /\ renderBindGroup.bufferSize = 2 * InstanceBytes

\* C32 (as claimed): every frame that is drawn draws instanceCount instances
\* from a buffer, the one its bind group binds, that holds at least as many.
C32_BoundBufferHoldsInstances ==
  (call.op = "animate" /\ renderer.frame.drawn) =>
    renderer.frame.instanceCount * InstanceBytes <= renderer.frame.bufferSize

\* C33 (as claimed): an uploadData whose createBuffer fails leaves the records,
\* instanceCount, the instance buffer and the render bind group as they were.
C33_FailedUploadChangesNothing ==
  [][(call'.op = "uploadData" /\ "createBuffer" \in DOMAIN call') =>
       UNCHANGED <<data, instanceCount, cubeData, renderBindGroup>>
    ]_vars

\* C34 (as claimed): in every state the highlighted id is unset or a member of
\* the CPU selection set.
C34_HighlightedIsSelected == highlightedPMID = NoPMID \/ highlightedPMID \in selectedPMIDs

\* C35: the list never holds more than maxProjectiles projectiles and is in
\* the order of firing; a projectile generated on a full list takes the place
\* of the oldest, which is removed, and is the last of the list; on a list
\* that is not full it is appended and nothing is removed.
C35_ProjectilesBounded ==
  /\ Len(controls.projectiles) <= maxProjectiles
  /\ [][/\ Len(controls'.projectiles) <= maxProjectiles
        /\ \A k \in 1..(Len(controls'.projectiles) - 1) :
             controls'.projectiles[k].id < controls'.projectiles[k + 1].id
        /\ controls'.fired # controls.fired =>
             LET before == controls.projectiles
                 after == controls'.projectiles
             IN /\ after[Len(after)].id = controls'.fired
                /\ after[Len(after)].active
                /\ SubSeq(after, 1, Len(after) - 1) =
                     (IF Len(before) = maxProjectiles THEN Tail(before) ELSE before)
       ]_vars

\* C35 witness: a projectile was generated on a full list, some of whose
\* projectiles a frame had updated, and the two oldest are gone.
C35_Witness ==
  /\ call.op = "onMouseDown"
  /\ call.fired
  /\ controls.fired = maxProjectiles + 2
  /\ Len(controls.projectiles) = maxProjectiles
  /\ controls.projectiles[1].id = 3
  /\ HasNaN(controls.projectiles[1].position)
  /\ ~HasNaN(controls.projectiles[maxProjectiles].position)

\* The projectile that was fired first is in the list.
tracked(id) == \E k \in DOMAIN controls.projectiles : controls.projectiles[k].id = id

\* C36 (as claimed): with the frame loop running while the controls are enabled
\* and pointer-locked, a projectile that was fired is eventually no longer in
\* the list.  Checked for the first projectile fired, from the states in which
\* every further frame is an animateBeyond, the action that is fair.
C36_ProjectileEventuallyRemoved ==
  (tracked(1) /\ camera.writes = MaxWrites) ~> ~tracked(1)

InputEvents ==
  {"onMouseDown", "onMouseMove", "onMouseUp", "onKeyDown", "onWheel",
   "onTouchStart", "onTouchMove", "animate"}

\* C37 (as claimed): an input event or a frame that arrives while the controls
\* are disabled leaves the camera's position and target as they are and
\* generates no projectile.
C37_DisabledControlsDoNothing ==
  [][(~controls.isEnabled /\ call'.op \in InputEvents) =>
       /\ camera'.position = camera.position
       /\ camera'.target = camera.target
       /\ controls'.fired = controls.fired
       /\ controls'.projectiles = controls.projectiles
    ]_vars

\* C38: for every 'projectile-fired' event, if the ray hits a record, its id
\* is in the selection set before 'cube-selected' is dispatched for it (none is
\* dispatched within the firing event, and the handler goes on to its await
\* rather than rejecting), and the handler ends having dispatched exactly one
\* such event; if the ray hits nothing, the selection state is unchanged and no
\* event is dispatched.
C38_HitSelectsThenDispatchesOnce ==
  [][/\ ("fired" \in DOMAIN call' /\ call'.fired /\ call'.pmid # NoPMID) =>
          /\ call'.pmid \in selectedPMIDs'
          /\ call'.dispatched = 0
          /\ call'.ret = "pending"
     /\ ("fired" \in DOMAIN call' /\ call'.fired /\ call'.pmid = NoPMID) =>
          /\ UNCHANGED selVars
          /\ call'.dispatched = 0
     /\ call'.op = "handleProjectile" => call'.dispatched = 1
    ]_vars

C38_HitSeen == "fired" \in DOMAIN call /\ call.fired /\ call.pmid # NoPMID /\ call.ret = "pending"
C38_MissSeen == "fired" \in DOMAIN call /\ call.fired /\ call.pmid = NoPMID /\ impl = "bits" /\ Len(data) = 1
C38_DoneSeen == call.op = "handleProjectile" /\ call.dispatched = 1

====
